---- MODULE Spec2Model ----
(***************************************************************************)
(* A model of the backtracking grammar engine of the interpreter crate:    *)
(* the ReadPointer / LineReader cursor (lexer/reader.rs), the Lexer        *)
(* (lexer/token.rs), the Expression combinators (parser/syntax.rs), the    *)
(* Parser (parser/parser.rs) and the evaluator (exec/exec.rs,              *)
(* exec/mod.rs) with the callbacks of lang/math.                           *)
(*                                                                         *)
(* Text is a sequence of one-character strings, each character one byte:  *)
(* the crate slices its content by byte offset and counts characters in    *)
(* move_pointer, and the two agree on such text.  The recursive functions  *)
(* Expression::get_* are run as a stack machine: `frames` is the call      *)
(* stack, `ret` the value a callee hands back to its caller.               *)
(*                                                                         *)
(* Five specifications share the variables: Spec runs Parser::parse_tree   *)
(* and Executor::exec on the grammars of `Scenarios`; RecSpec runs the     *)
(* same steps under weak fairness, on those grammars and on a              *)
(* left-recursive one, to the depth MaxDepth; CursorSpec applies           *)
(* the operations of ReadPointer to a new pointer (`saved`, `last`);       *)
(* DefineSpec fills the definition tables of Lexer, Parser and VirtualEnv  *)
(* (`venv`) and queries the lexer (`registered` is the order of the        *)
(* successful Lexer::define calls, which the Lexer itself does not keep);  *)
(* EvalSpec applies VirtualEnv::eval_node, EnvFrame::eval, Executor::exec  *)
(* and the operators of NodeValue and StateNode to operands drawn in its   *)
(* initial state.                                                          *)
(*                                                                         *)
(* `idents` is the identifier storage of the VirtualEnv, a function from   *)
(* names to values.  `overflow_checks` is the overflow-checks setting of   *)
(* the build, which decides between a panic and a wrapped result of i32    *)
(* arithmetic.  A float is the exact ratio v / d in lowest terms; the      *)
(* operands are halves and quarters, on which f32 and f64 do not round.    *)
(***************************************************************************)
EXTENDS Integers, Sequences, FiniteSets, TLC

VARIABLES lexer, parser, content, pointer, frames, ret, mode, results,
          venv, saved, last, registered, overflow_checks, idents

vars == <<lexer, parser, content, pointer, frames, ret, mode, results,
          venv, saved, last, registered, overflow_checks, idents>>

(***************************************************************************)
(* Bounds                                                                  *)
(***************************************************************************)
\* number of parse_tree / exec calls made on one reader
MaxCalls == 3

(***************************************************************************)
(* Generic helpers                                                         *)
(***************************************************************************)
Last(s) == s[Len(s)]

Front(s) == SubSeq(s, 1, Len(s) - 1)

NL == "\n"

CR == "\r"

(***************************************************************************)
(* ReadPointer (lexer/reader.rs)                                           *)
(*                                                                         *)
(* line_pos = <<start line, start col, end line, end col>>,                *)
(* read_pos = <<start, end>>.  A snapshot on `stack` is kept without its   *)
(* own copy of the stack: push() clones the pointer before pushing, so the *)
(* stack inside the k-th snapshot is always the k-1 snapshots below it,    *)
(* and pop() therefore leaves exactly those k-1 snapshots.                 *)
(***************************************************************************)
from_pos(line_pos, read_pos) ==
    [stack |-> <<>>, line_pos |-> line_pos, read_pos |-> read_pos]

new_pointer == from_pos(<<0, 0, 0, 0>>, <<0, 0>>)

Snapshot(ptr) == [line_pos |-> ptr.line_pos, read_pos |-> ptr.read_pos]

\* from_to that starts the new pointer with an empty stack
from_to_no_stack(from, to) ==
    [stack    |-> <<>>,
     line_pos |-> <<from.line_pos[1], from.line_pos[2], to.line_pos[3], to.line_pos[4]>>,
     read_pos |-> <<from.read_pos[1], to.read_pos[2]>>]

from_to(from, to) ==
    [stack    |-> from.stack,
     line_pos |-> <<from.line_pos[1], from.line_pos[2], to.line_pos[3], to.line_pos[4]>>,
     read_pos |-> <<from.read_pos[1], to.read_pos[2]>>]

increment(ptr) ==
    [ptr EXCEPT !.line_pos[4] = @ + 1, !.read_pos[2] = @ + 1]

increment_line(ptr) ==
    [ptr EXCEPT !.line_pos[3] = @ + 1, !.line_pos[4] = 0]

\* move_pointer that breaks the line at every \r, also before a \n
RECURSIVE move_pointer_cr_always(_, _)
move_pointer_cr_always(ptr, raw) ==
    IF raw = <<>> THEN ptr
    ELSE LET c  == Head(raw)
             p1 == increment(ptr)
             p2 == IF c = NL \/ c = CR THEN increment_line(p1) ELSE p1
         IN  move_pointer_cr_always(p2, Tail(raw))

RECURSIVE move_pointer(_, _)
move_pointer(ptr, raw) ==
    IF raw = <<>> THEN ptr
    ELSE LET c    == Head(raw)
             rest == Tail(raw)
             p1   == increment(ptr)
             p2   == IF c = NL THEN increment_line(p1)
                     ELSE IF c = CR /\ ~(rest # <<>> /\ Head(rest) = NL)
                          THEN increment_line(p1)
                          ELSE p1
         IN  move_pointer(p2, rest)

\* commit with the assignment reversed: the end is moved to the start
commit_reversed(ptr) ==
    [ptr EXCEPT !.read_pos[2] = ptr.read_pos[1],
                !.line_pos[3] = ptr.line_pos[1],
                !.line_pos[4] = ptr.line_pos[2]]

commit(ptr) ==
    [ptr EXCEPT !.read_pos[1] = ptr.read_pos[2],
                !.line_pos[1] = ptr.line_pos[3],
                !.line_pos[2] = ptr.line_pos[4]]

\* back that resets the offset only and keeps the end line and column
back_offset_only(ptr) ==
    [ptr EXCEPT !.read_pos[2] = ptr.read_pos[1]]

back(ptr) ==
    [ptr EXCEPT !.read_pos[2] = ptr.read_pos[1],
                !.line_pos[3] = ptr.line_pos[1],
                !.line_pos[4] = ptr.line_pos[2]]

push(ptr) == [ptr EXCEPT !.stack = Append(@, Snapshot(ptr))]

\* pop that drops the snapshot without restoring it (what pull does)
pop_discards(ptr) ==
    IF ptr.stack = <<>> THEN ptr ELSE [ptr EXCEPT !.stack = SubSeq(@, 1, Len(@) - 1)]

\* pop that restores the pending end only and keeps the current start
pop_end_only(ptr) ==
    IF ptr.stack = <<>> THEN ptr
    ELSE [stack    |-> SubSeq(ptr.stack, 1, Len(ptr.stack) - 1),
          line_pos |-> <<ptr.line_pos[1], ptr.line_pos[2],
                         ptr.stack[Len(ptr.stack)].line_pos[3],
                         ptr.stack[Len(ptr.stack)].line_pos[4]>>,
          read_pos |-> <<ptr.read_pos[1], ptr.stack[Len(ptr.stack)].read_pos[2]>>]

pop(ptr) ==
    IF ptr.stack = <<>> THEN ptr
    ELSE [stack    |-> Front(ptr.stack),
          line_pos |-> Last(ptr.stack).line_pos,
          read_pos |-> Last(ptr.stack).read_pos]

pull(ptr) ==
    IF ptr.stack = <<>> THEN ptr ELSE [ptr EXCEPT !.stack = Front(@)]

len(ptr) == ptr.read_pos[2] - ptr.read_pos[1]

(***************************************************************************)
(* Reader / LineReader (lexer/reader.rs)                                   *)
(***************************************************************************)
get_token_pointer(raw, ptr) == move_pointer(commit(ptr), raw)

\* &self.content[i..j] with i = pending end
read_next(text, ptr, size) ==
    LET i   == ptr.read_pos[2]
        raw == SubSeq(text, i + 1, i + size)
    IN  [raw |-> raw, ptr |-> get_token_pointer(raw, ptr)]

\* next that takes the pointer of the text read as the new cursor: the
\* start moves as well
next_moves_start(text, ptr, size) ==
    [read_next(text, ptr, size).ptr EXCEPT !.stack = ptr.stack]

\* LineReader::next: only the pending end moves, start and stack are kept
next(text, ptr, size) == from_to(ptr, read_next(text, ptr, size).ptr)

(***************************************************************************)
(* Lexer (lexer/token.rs)                                                  *)
(*                                                                         *)
(* A compiled pattern \A(...) is modelled for the two shapes the grammars  *)
(* use: one character of a class (a|b|c) and a greedy run of a class       *)
(* ([a-c]+).  RegexFind gives the matched prefix, <<>> when there is none. *)
(***************************************************************************)
RECURSIVE Run(_, _)
Run(class, text) ==
    IF text # <<>> /\ Head(text) \in class
    THEN <<Head(text)>> \o Run(class, Tail(text))
    ELSE <<>>

\* find without the \A anchor: the first match at any offset of the text
RECURSIVE RegexFind_unanchored(_, _)
RegexFind_unanchored(regex, text) ==
    IF text = <<>> THEN <<>>
    ELSE IF Head(text) \in regex.class
         THEN (IF regex.many THEN Run(regex.class, text) ELSE <<Head(text)>>)
         ELSE RegexFind_unanchored(regex, Tail(text))

RegexFind(regex, text) ==
    IF regex.many THEN Run(regex.class, text)
    ELSE IF text # <<>> /\ Head(text) \in regex.class THEN <<Head(text)>>
    ELSE <<>>

TokenDef(token_type, class, many) ==
    [token_type |-> token_type, regex |-> [class |-> class, many |-> many]]

NewToken(token_type, value, position) ==
    [token_type |-> token_type, value |-> value, position |-> Snapshot(position)]

\* Option<(&str, ReadPointer)>: a sequence of length 0 (None) or 1 (Some)
read_regex(text, ptr, regex) ==
    LET i == ptr.read_pos[2]
        m == RegexFind(regex, SubSeq(text, i + 1, Len(text)))
    IN  IF m = <<>> THEN <<>>
        ELSE << [raw |-> m, ptr |-> get_token_pointer(m, ptr)] >>

get_next(def, text, ptr) ==
    LET r == read_regex(text, ptr, def.regex)
    IN  IF r = <<>> THEN <<>>
        ELSE << NewToken(def.token_type, r[1].raw, r[1].ptr) >>

get_next_token(lex, token_type, text, ptr) ==
    IF token_type \in DOMAIN lex THEN get_next(lex[token_type], text, ptr)
    ELSE <<>>

(***************************************************************************)
(* Lambda / OwnedLambda (exec/syntax.rs), as one record shape              *)
(***************************************************************************)
LambdaOr(lambdas) ==
    [kind |-> "LambdaOr", subs |-> lambdas, name |-> "", args |-> <<>>, arg |-> 0]

Lambda(name, args) ==
    [kind |-> "Lambda", subs |-> <<>>, name |-> name, args |-> args, arg |-> 0]

GetExpr(arg, lambda) ==
    [kind |-> "GetExpr", subs |-> <<lambda>>, name |-> "", args |-> <<>>, arg |-> arg]

Eval == [kind |-> "Eval", subs |-> <<>>, name |-> "", args |-> <<>>, arg |-> 0]

EvalAs(name) ==
    [kind |-> "EvalAs", subs |-> <<>>, name |-> name, args |-> <<>>, arg |-> 0]

EvalToken ==
    [kind |-> "EvalToken", subs |-> <<>>, name |-> "", args |-> <<>>, arg |-> 0]

\* exec/syntax.rs Lambda<'a>, the borrowed form: the variant with its &str,
\* its &[u32], its u32 and the Lambdas it refers to (the slice of LambdaOr,
\* the one reference of GetExpr)
BorrowedLambda(variant, str, slice, id, refs) ==
    [variant |-> variant, str |-> str, slice |-> slice, id |-> id, refs |-> refs]

RECURSIVE OwnedLambda_from(_)
OwnedLambda_from_reversed(lam) ==
    CASE lam.variant = "LambdaOr" ->
           LambdaOr([i \in 1..Len(lam.refs) |->
                        OwnedLambda_from(lam.refs[Len(lam.refs) + 1 - i])])
      [] lam.variant = "Lambda" -> Lambda(lam.str, lam.slice)
      [] lam.variant = "GetExpr" -> GetExpr(lam.id, OwnedLambda_from(lam.refs[1]))
      [] lam.variant = "Eval" -> Eval
      [] lam.variant = "EvalAs" -> EvalAs(lam.str)
      [] lam.variant = "EvalToken" -> EvalToken

\* impl From<&Lambda> for OwnedLambda
OwnedLambda_from(lam) ==
    CASE lam.variant = "LambdaOr" ->
           LambdaOr([i \in 1..Len(lam.refs) |-> OwnedLambda_from(lam.refs[i])])
      [] lam.variant = "Lambda" -> Lambda(lam.str, lam.slice)
      [] lam.variant = "GetExpr" -> GetExpr(lam.id, OwnedLambda_from(lam.refs[1]))
      [] lam.variant = "Eval" -> Eval
      [] lam.variant = "EvalAs" -> EvalAs(lam.str)
      [] lam.variant = "EvalToken" -> EvalToken

\* impl Into<OwnedLambda> for Lambda: the Lambdas referred to are converted
\* by reference
Lambda_into(lam) ==
    CASE lam.variant = "LambdaOr" ->
           LambdaOr([i \in 1..Len(lam.refs) |-> OwnedLambda_from(lam.refs[i])])
      [] lam.variant = "Lambda" -> Lambda(lam.str, lam.slice)
      [] lam.variant = "GetExpr" -> GetExpr(lam.id, OwnedLambda_from(lam.refs[1]))
      [] lam.variant = "Eval" -> Eval
      [] lam.variant = "EvalAs" -> EvalAs(lam.str)
      [] lam.variant = "EvalToken" -> EvalToken

(***************************************************************************)
(* Expression (parser/syntax.rs), as one record shape                      *)
(***************************************************************************)
ExprOr(exprs) ==
    [kind |-> "ExprOr", subs |-> exprs, name |-> "", value |-> <<>>]

SubExpr(exprs) ==
    [kind |-> "SubExpr", subs |-> exprs, name |-> "", value |-> <<>>]

Expr(name) ==
    [kind |-> "Expr", subs |-> <<>>, name |-> name, value |-> <<>>]

Token(token_type, value) ==
    [kind |-> "Token", subs |-> <<>>, name |-> token_type, value |-> value]

(***************************************************************************)
(* TreeNode (parser/syntax.rs); leaf is an Option: <<>> or <<token>>.      *)
(* The lambda field is the one exec/exec.rs reads (node.lambda).           *)
(***************************************************************************)
from_token(token, lambda) ==
    [nodes |-> <<>>, leaf |-> <<token>>, lambda |-> lambda]

from_nodes(nodes, lambda) ==
    [nodes |-> nodes, leaf |-> <<>>, lambda |-> lambda]

\* Parser::define / ParserDef::from
ParserDef(expr, lambda) == [expr |-> expr, lambda |-> lambda]

\* The instruction handed to alternative i of an ExprOr, to the
\* sub-expressions of a SubExpr, and to the rule an Expr refers to.
AltLambda(lambda, i) ==
    IF lambda.kind = "LambdaOr"
    THEN (IF i <= Len(lambda.subs) THEN lambda.subs[i] ELSE Eval)
    ELSE lambda

SubLambda == Eval

(***************************************************************************)
(* Results and errors                                                      *)
(***************************************************************************)
Error(msg, name) == [msg |-> msg, name |-> name]

NoError == Error("", "")

ErrNoExprRule == Error("You need to define an Expression for EXPR", "EXPR")

ErrNoDefinition(name) == Error("Parser has no definition for", name)

ErrNoMatch == Error("Could find matching expression for", "")

ErrNoToken(token) == Error("Could not find token", token)

ErrNoTokenValue(token) == Error("Could not find token with value", token)

\* Result<TreeNode, String>, and the observations the properties read:
\* which combinator returned (its kind and expression), the depth of the
\* save stack and the pending end when it was entered, and the index of
\* the alternative or sub-expression it stopped at.
Ok(node, f) ==
    [some |-> TRUE, ok |-> TRUE, node |-> <<node>>, err |-> NoError,
     from |-> f.expr.kind, expr |-> f.expr, lambda |-> f.lambda,
     depth0 |-> f.depth0, start |-> f.start, at |-> f.i]

Err(err, f) ==
    [some |-> TRUE, ok |-> FALSE, node |-> <<>>, err |-> err,
     from |-> f.expr.kind, expr |-> f.expr, lambda |-> f.lambda,
     depth0 |-> f.depth0, start |-> f.start, at |-> f.i]

NoRet ==
    [some |-> FALSE, ok |-> FALSE, node |-> <<>>, err |-> NoError,
     from |-> "", expr |-> Expr(""), lambda |-> Eval,
     depth0 |-> 0, start |-> <<0, 0, 0>>, at |-> 0]

\* pending end of the cursor: offset, line, column
EndPos(ptr) == <<ptr.read_pos[2], ptr.line_pos[3], ptr.line_pos[4]>>

\* committed start of the cursor: offset, line, column
StartPos(ptr) == <<ptr.read_pos[1], ptr.line_pos[1], ptr.line_pos[2]>>

(***************************************************************************)
(* Lexers and grammars the engine is run on (configuration data).          *)
(***************************************************************************)
Digits == {"0", "1", "2", "3", "4", "5", "6", "7", "8", "9"}

\* parser/macros.rs: tok:a = [a-c]+, tok:b = [d-f]+, tok:c = [g-i]+
LexerABC ==
    [t \in {"tok:a", "tok:b", "tok:c"} |->
        CASE t = "tok:a" -> TokenDef(t, {"a", "b", "c"}, TRUE)
          [] t = "tok:b" -> TokenDef(t, {"d", "e", "f"}, TRUE)
          [] t = "tok:c" -> TokenDef(t, {"g", "h", "i"}, TRUE)]

\* the same with a line break in the class of tok:b: [d-f\n]+
LexerNL ==
    [t \in {"tok:a", "tok:b", "tok:c"} |->
        CASE t = "tok:a" -> TokenDef(t, {"a", "b", "c"}, TRUE)
          [] t = "tok:b" -> TokenDef(t, {"d", "e", "f", NL}, TRUE)
          [] t = "tok:c" -> TokenDef(t, {"g", "h", "i"}, TRUE)]

\* parser/macros.rs and lang/math: num|int = [0-9]+, op = \+|\*|\(|\)
LexerMath ==
    [t \in {"num", "int", "op"} |->
        CASE t = "num" -> TokenDef(t, Digits, TRUE)
          [] t = "int" -> TokenDef(t, Digits, TRUE)
          [] t = "op"  -> TokenDef(t, {"+", "*", "(", ")"}, FALSE)]

\* parser/macros.rs, assert_ast_expr_or_sub_expr
ParserABC ==
    [n \in {"EXPR"} |->
        ParserDef(ExprOr(<< SubExpr(<< Token("tok:a", <<>>), Token("tok:b", <<>>) >>),
                            Token("tok:a", <<>>),
                            Token("tok:c", <<>>) >>), Eval)]

\* parser/macros.rs, assert_ast_sub_expr: EXPR -> VAL '+' EXPR | VAL
ParserVal ==
    [n \in {"EXPR", "VAL", "NUM"} |->
        CASE n = "EXPR" ->
               ParserDef(ExprOr(<< SubExpr(<< Expr("VAL"), Token("op", <<"+">>), Expr("EXPR") >>),
                                   Expr("VAL") >>), Eval)
          [] n = "VAL" ->
               ParserDef(ExprOr(<< SubExpr(<< Token("op", <<"(">>), Expr("EXPR"), Token("op", <<")">>) >>),
                                   Expr("NUM") >>), Eval)
          [] n = "NUM" -> ParserDef(Token("num", <<>>), Eval)]

\* FACTOR -> '(' EXPR ')' | NUM, TERM -> FACTOR '*' TERM | FACTOR,
\* EXPR -> TERM '+' EXPR | TERM, with the instructions of lang/math
ParserArith ==
    [n \in {"EXPR", "TERM", "FACTOR", "NUM"} |->
        CASE n = "EXPR" ->
               ParserDef(ExprOr(<< SubExpr(<< Expr("TERM"), Token("op", <<"+">>), Expr("EXPR") >>),
                                   Expr("TERM") >>),
                         LambdaOr(<< Lambda("ADD", <<1, 3>>), Eval >>))
          [] n = "TERM" ->
               ParserDef(ExprOr(<< SubExpr(<< Expr("FACTOR"), Token("op", <<"*">>), Expr("TERM") >>),
                                   Expr("FACTOR") >>),
                         LambdaOr(<< Lambda("MULT", <<1, 3>>), Eval >>))
          [] n = "FACTOR" ->
               ParserDef(ExprOr(<< SubExpr(<< Token("op", <<"(">>), Expr("EXPR"), Token("op", <<")">>) >>),
                                   Expr("NUM") >>),
                         LambdaOr(<< GetExpr(2, Eval), Eval >>))
          [] n = "NUM" -> ParserDef(Token("int", <<>>), EvalAs("INTEGER"))]

\* a sequence whose first two sub-expressions are rules, then two tokens
ParserSeq ==
    [n \in {"EXPR", "A", "B"} |->
        CASE n = "EXPR" ->
               ParserDef(ExprOr(<< SubExpr(<< Expr("A"), Expr("B"), Token("tok:c", <<>>) >>),
                                   Token("tok:a", <<>>),
                                   Token("tok:b", <<"e">>) >>), Eval)
          [] n = "A" -> ParserDef(ExprOr(<< Token("tok:a", <<>>) >>), Eval)
          [] n = "B" -> ParserDef(ExprOr(<< Token("tok:b", <<>>) >>), Eval)]

\* a reference to a rule that is never defined, before an alternative
ParserUndef ==
    [n \in {"EXPR"} |->
        ParserDef(ExprOr(<< Expr("UNDEF"), Token("tok:a", <<>>) >>), Eval)]

\* a reference to a rule that is never defined, alone
ParserUndefOnly ==
    [n \in {"EXPR"} |-> ParserDef(Expr("UNDEF"), Eval)]

\* parser/syntax.rs, test_get_token: no rule named EXPR
ParserNoExpr ==
    [n \in {"expr"} |-> ParserDef(Token("tok:a", <<>>), Eval)]

\* lang/math, the rule NUM: a choice between tokens, each alternative with
\* its own instruction, below a choice between a sequence and a rule
ParserNum ==
    [n \in {"EXPR", "NUM"} |->
        CASE n = "EXPR" ->
               ParserDef(ExprOr(<< SubExpr(<< Expr("NUM"), Token("op", <<"+">>), Expr("NUM") >>),
                                   Expr("NUM") >>),
                         LambdaOr(<< Lambda("ADD", <<1, 3>>), Eval >>))
          [] n = "NUM" ->
               ParserDef(ExprOr(<< Token("op", <<"(">>), Token("int", <<>>) >>),
                         LambdaOr(<< EvalToken, EvalAs("INTEGER") >>))]

\* a token type that the lexer does not define, before one that it does
ParserTokUndef ==
    [n \in {"EXPR"} |->
        ParserDef(ExprOr(<< Token("tok:x", <<>>), Token("tok:a", <<"b">>),
                            Token("tok:a", <<>>) >>), Eval)]

\* a left-recursive rule: EXPR -> A, A -> A tok:b | tok:a
ParserLeftRec ==
    [n \in {"EXPR", "A"} |->
        CASE n = "EXPR" -> ParserDef(Expr("A"), Eval)
          [] n = "A" ->
               ParserDef(ExprOr(<< SubExpr(<< Expr("A"), Token("tok:b", <<>>) >>),
                                   Token("tok:a", <<>>) >>), Eval)]

Scenario(lex, prs, inputs) == [lexer |-> lex, parser |-> prs, inputs |-> inputs]

Scenarios ==
    << Scenario(LexerABC, ParserABC,
                { <<"g", "a", "d", "a">>, <<"a", "b", "g">>, <<"d">>, <<>> }),
       Scenario(LexerMath, ParserVal,
                { <<"1">>, <<"1", "+", "2">>, <<"1", "+", "2", "+", "3">>,
                  <<"1", "2", "+", "3">>, <<"1", "+">>,
                  <<"(", "1", ")", "+">>, <<"1", "+", "(", "2", "+", "3", ")">> }),
       Scenario(LexerMath, ParserArith,
                { <<"(", "2", "+", "3", ")", "*", "4">>, <<"2", "+", "3">>,
                  <<"2", "*", "3">>, <<"7">>, <<"+">> }),
       Scenario(LexerNL, ParserSeq,
                { <<"a", "d">>, <<"a", "e">>, <<"a", NL>>, <<"a", "d", "g">>,
                  <<"a">>, <<"b", "e", NL, "d">> }),
       Scenario(LexerABC, ParserUndef, { <<"a">>, <<"g">> }),
       Scenario(LexerABC, ParserUndefOnly, { <<"a">> }),
       Scenario(LexerABC, ParserNoExpr, { <<"a">> }),
       Scenario(LexerABC, ParserTokUndef, { <<"a", "d">>, <<"b">>, <<"d">> }),
       Scenario(LexerMath, ParserNum, { <<"7">>, <<"1", "+", "2">>, <<"(">> }) >>

(***************************************************************************)
(* Evaluator (exec/exec.rs)                                                *)
(***************************************************************************)
I32Max == 2147483647

I32Min == (0 - I32Max) - 1

\* NodeValue.  A floating value is the rational v / d in lowest terms
\* with d > 0 that it denotes; a String carries its text.
Integer(v) == [type |-> "Integer", v |-> v, d |-> 1, text |-> <<>>, err |-> ""]

BigInteger(v) == [type |-> "BigInteger", v |-> v, d |-> 1, text |-> <<>>, err |-> ""]

String(text) == [type |-> "String", v |-> 0, d |-> 1, text |-> text, err |-> ""]

ValueError(err) == [type |-> "ValueError", v |-> 0, d |-> 1, text |-> <<>>, err |-> err]

\* a NodeValue operation that aborts instead of returning
ValuePanic(err) == [type |-> "Panic", v |-> 0, d |-> 1, text |-> <<>>, err |-> err]

NoValue == [type |-> "", v |-> 0, d |-> 1, text |-> <<>>, err |-> ""]

RECURSIVE Gcd(_, _)
Gcd(a, b) == IF b = 0 THEN a ELSE Gcd(b, a % b)

\* the floating value n / d of kind type (d # 0)
Ratio(type, n, d) ==
    LET num == IF d < 0 THEN 0 - n ELSE n
        den == IF d < 0 THEN 0 - d ELSE d
        g == Gcd(den, num % den)
    IN  [type |-> type, v |-> num \div g, d |-> den \div g, text |-> <<>>, err |-> ""]

Float(n, d) == Ratio("Float", n, d)

BigFloat(n, d) == Ratio("BigFloat", n, d)

\* NodeType, in the order the conversion arms of the operators test it
NumericTypes == {"Integer", "BigInteger", "Float", "BigFloat"}

FloatTypes == {"Float", "BigFloat"}

\* StateNode; Panic stands for a call that aborts instead of returning
StateNone == [kind |-> "None", val |-> NoValue, err |-> "", node |-> <<>>]

StateNodeOf(node) == [kind |-> "Node", val |-> NoValue, err |-> "", node |-> <<node>>]

Value(val) == [kind |-> "Value", val |-> val, err |-> "", node |-> <<>>]

RuntimeErr(err) == [kind |-> "RuntimeErr", val |-> NoValue, err |-> err, node |-> <<>>]

Panic(err) == [kind |-> "Panic", val |-> NoValue, err |-> err, node |-> <<>>]

\* Exec, as EnvFrame::eval builds it
UniOp(a) == [kind |-> "UniOp", ops |-> <<a>>]

BinOp(a, b) == [kind |-> "BinOp", ops |-> <<a, b>>]

Root(a) == [kind |-> "Root", ops |-> <<a>>]

ExecPanic(err) == [kind |-> "Panic", ops |-> <<Panic(err)>>]

DigitVal(c) ==
    CASE c = "0" -> 0 [] c = "1" -> 1 [] c = "2" -> 2 [] c = "3" -> 3
      [] c = "4" -> 4 [] c = "5" -> 5 [] c = "6" -> 6 [] c = "7" -> 7
      [] c = "8" -> 8 [] c = "9" -> 9

RECURSIVE DigitsVal(_, _)
DigitsVal(acc, value) ==
    IF value = <<>> THEN acc
    ELSE DigitsVal(10 * acc + DigitVal(Head(value)), Tail(value))

IsDigits(value) == value # <<>> /\ (\A k \in 1..Len(value) : value[k] \in Digits)

\* the digits after an optional sign, and the sign
Unsigned(value) ==
    IF value # <<>> /\ Head(value) \in {"+", "-"} THEN Tail(value) ELSE value

Negative(value) == value # <<>> /\ Head(value) = "-"

\* whether the decimal digits, accumulated below zero as str::parse does
\* for a signed target, stay at or above low (low < 0): acc is the negated
\* value of the digits read so far
RECURSIVE FitsAbove(_, _, _)
FitsAbove(acc, value, low) ==
    IF value = <<>> THEN TRUE
    ELSE LET dgt == DigitVal(Head(value))
             q == low \div 10
             r == low % 10
         IN  /\ acc >= q
             /\ (acc - q >= 2 \/ 10 * (acc - q) >= r + dgt)
             /\ FitsAbove(10 * acc - dgt, Tail(value), low)

\* str::parse::<i32>
parse_i32(value) ==
    LET digits == Unsigned(value)
    IN  IF ~IsDigits(digits) THEN <<>>
        ELSE IF Negative(value)
             THEN (IF FitsAbove(0, digits, I32Min)
                   THEN << IF FitsAbove(0, digits, 0 - I32Max)
                           THEN 0 - DigitsVal(0, digits) ELSE I32Min >>
                   ELSE <<>>)
             ELSE (IF FitsAbove(0, digits, 0 - I32Max)
                   THEN << DigitsVal(0, digits) >> ELSE <<>>)

\* str::parse::<i128>, for text whose value the integers of the model hold
parse_i128(value) ==
    LET digits == Unsigned(value)
    IN  IF ~IsDigits(digits) THEN <<>>
        ELSE IF Negative(value) THEN << 0 - DigitsVal(0, digits) >>
             ELSE << DigitsVal(0, digits) >>

RECURSIVE Pow10(_)
Pow10(k) == IF k = 0 THEN 1 ELSE 10 * Pow10(k - 1)

\* position of the first "." of value, or 0
RECURSIVE PointAt(_, _)
PointAt(value, k) ==
    IF k > Len(value) THEN 0
    ELSE IF value[k] = "." THEN k ELSE PointAt(value, k + 1)

\* str::parse::<f32> / <f64> for decimal text without an exponent:
\* <<numerator, denominator>>, or <<>> when the text is no such number
parse_float(value) ==
    LET body == Unsigned(value)
        p == PointAt(body, 1)
        whole == IF p = 0 THEN body ELSE SubSeq(body, 1, p - 1)
        frac == IF p = 0 THEN <<>> ELSE SubSeq(body, p + 1, Len(body))
        all == whole \o frac
    IN  IF IsDigits(all)
        THEN << (IF Negative(value) THEN 0 - DigitsVal(0, all) ELSE DigitsVal(0, all)),
                Pow10(Len(frac)) >>
        ELSE <<>>

\* NodeValue::parse_value::<T>, T named by its NodeType
parse_value(type, value) ==
    CASE type = "Integer" ->
           (IF parse_i32(value) = <<>> THEN ValueError("Failed to parse as Integer")
            ELSE Integer(parse_i32(value)[1]))
      [] type = "BigInteger" ->
           (IF parse_i128(value) = <<>> THEN ValueError("Failed to parse as Integer")
            ELSE BigInteger(parse_i128(value)[1]))
      [] type \in FloatTypes ->
           (IF parse_float(value) = <<>> THEN ValueError("Failed to parse as Float")
            ELSE Ratio(type, parse_float(value)[1], parse_float(value)[2]))
      [] type = "String" -> String(value)

\* NodeValue::parse_value::<i32>
parse_value_i32(value) == parse_value("Integer", value)

DigitChar(n) == << "0", "1", "2", "3", "4", "5", "6", "7", "8", "9" >>[n + 1]

RECURSIVE NatToString(_)
NatToString(n) ==
    IF n < 10 THEN << DigitChar(n) >>
    ELSE NatToString(n \div 10) \o << DigitChar(n % 10) >>

\* the digits of n < 0, read without negating n
RECURSIVE NegToString(_)
NegToString(n) ==
    LET m == n % 10
        rest == IF m = 0 THEN n \div 10 ELSE (n \div 10) + 1
        dgt == DigitChar((10 - m) % 10)
    IN  IF rest = 0 THEN << dgt >> ELSE NegToString(rest) \o << dgt >>

IntToString(n) == IF n < 0 THEN <<"-">> \o NegToString(n) ELSE NatToString(n)

\* the decimal digits of num / den (0 <= num < den) after the point
RECURSIVE FracToString(_, _)
FracToString(num, den) ==
    IF num = 0 THEN <<>>
    ELSE << DigitChar((10 * num) \div den) >> \o FracToString((10 * num) % den, den)

\* Display of f32 / f64, for values with a finite decimal expansion:
\* no point and no fraction for a whole number
FloatToString(val) ==
    LET mag == IF val.v < 0 THEN 0 - val.v ELSE val.v
        frac == FracToString(mag % val.d, val.d)
    IN  (IF val.v < 0 THEN <<"-">> ELSE <<>>) \o NatToString(mag \div val.d)
        \o (IF frac = <<>> THEN <<>> ELSE <<".">> \o frac)

\* NodeValue::to_string (Result<String, String>)
to_string(val) ==
    CASE val.type = "ValueError" -> [ok |-> FALSE, text |-> <<val.err>>]
      [] val.type \in {"Integer", "BigInteger"} -> [ok |-> TRUE, text |-> IntToString(val.v)]
      [] val.type \in FloatTypes -> [ok |-> TRUE, text |-> FloatToString(val)]
      [] val.type = "String" -> [ok |-> TRUE, text |-> val.text]

\* NodeValue::as_type::<T>: render, then parse as T
as_type(val, type) ==
    IF to_string(val).ok THEN parse_value(type, to_string(val).text)
    ELSE ValueError(val.err)

\* i32 arithmetic: the outcome of an operation whose result leaves the
\* range of i32 depends on the build, a panic with overflow checks and the
\* result modulo 2^32 without
Overflow(wrapped) ==
    IF overflow_checks THEN ValuePanic("attempt to compute with overflow")
    ELSE Integer(wrapped)

\* i1 + i2 modulo 2^32, and whether the sum leaves the range
AddWraps(a, b) ==
    \/ b > 0 /\ a > I32Max - b
    \/ b < 0 /\ a < I32Min - b

AddWrapped(a, b) ==
    IF b > 0 /\ a > I32Max - b THEN ((a - I32Max) + (b - I32Max)) - 2
    ELSE IF b < 0 /\ a < I32Min - b THEN (a - I32Min) + (b - I32Min)
    ELSE a + b

\* i1 - i2 modulo 2^32, and whether the difference leaves the range
SubWraps(a, b) ==
    \/ b < 0 /\ a > I32Max + b
    \/ b > 0 /\ a < I32Min + b

SubWrapped(a, b) ==
    IF b < 0 /\ a > I32Max + b THEN ((a - I32Max) - (b - I32Min)) - 1
    ELSE IF b > 0 /\ a < I32Min + b THEN ((a - I32Min) - (b - I32Max)) + 1
    ELSE a - b

\* i1 * i2 modulo 2^32, from the 16-bit halves of the operands: lo is
\* al * bl modulo 2^16 and carry the rest of al * bl
MulWrapped(a, b) ==
    LET al == a % 65536
        ah == a \div 65536
        bl == b % 65536
        bh == b \div 65536
        p0 == al * (bl % 256)
        p1 == al * (bl \div 256)
        low == (p1 % 256) * 256 + p0
        lo == low % 65536
        carry == (p1 \div 256) + (low \div 65536)
        hi == (((ah * bl) % 65536) + ((al * bh) % 65536) + carry) % 65536
    IN  IF hi >= 32768 THEN (hi - 65536) * 65536 + lo ELSE hi * 65536 + lo

\* whether i2 divides i1 (i1 % i2 == 0), i2 # 0
Divides(b, a) ==
    IF b = I32Min THEN a \in {0, I32Min}
    ELSE a % (IF b < 0 THEN 0 - b ELSE b) = 0

\* i1 / i2 when i2 divides i1 and the quotient is in range
ExactQuotient(a, b) ==
    IF b = I32Min THEN (IF a = 0 THEN 0 ELSE 1)
    ELSE IF b < 0 THEN 0 - (a \div (0 - b)) ELSE a \div b

\* whether the product i1 * i2 leaves the range of i32
MulWraps(a, b) ==
    /\ a # 0
    /\ \/ a = 0 - 1 /\ MulWrapped(a, b) = I32Min
       \/ ~Divides(a, MulWrapped(a, b))
       \/ ExactQuotient(MulWrapped(a, b), a) # b

\* the arm of two operands of one numeric kind in impl Add / Sub / Mul
\* for NodeValue.  BigInteger values are those the integers of the model
\* hold, far inside the range of i128.
SameKind(op, lhs, rhs) ==
    CASE lhs.type \in FloatTypes ->
           (CASE op = "+" -> Ratio(lhs.type, lhs.v * rhs.d + rhs.v * lhs.d, lhs.d * rhs.d)
              [] op = "-" -> Ratio(lhs.type, lhs.v * rhs.d - rhs.v * lhs.d, lhs.d * rhs.d)
              [] op = "*" -> Ratio(lhs.type, lhs.v * rhs.v, lhs.d * rhs.d))
      [] lhs.type = "BigInteger" ->
           (CASE op = "+" -> BigInteger(lhs.v + rhs.v)
              [] op = "-" -> BigInteger(lhs.v - rhs.v)
              [] op = "*" -> BigInteger(lhs.v * rhs.v))
      [] lhs.type = "Integer" ->
           (CASE op = "+" -> (IF AddWraps(lhs.v, rhs.v)
                              THEN Overflow(AddWrapped(lhs.v, rhs.v))
                              ELSE Integer(lhs.v + rhs.v))
              [] op = "-" -> (IF SubWraps(lhs.v, rhs.v)
                              THEN Overflow(SubWrapped(lhs.v, rhs.v))
                              ELSE Integer(lhs.v - rhs.v))
              [] op = "*" -> (IF MulWraps(lhs.v, rhs.v)
                              THEN Overflow(MulWrapped(lhs.v, rhs.v))
                              ELSE Integer(lhs.v * rhs.v)))

\* the kind the conversion arms of the operators convert both operands
\* to, in the order the arms are tried; "" when none applies
ConversionType(lhs, rhs) ==
    CASE "BigFloat" \in {lhs.type, rhs.type} -> "BigFloat"
      [] "Float" \in {lhs.type, rhs.type} -> "Float"
      [] "BigInteger" \in {lhs.type, rhs.type} -> "BigInteger"
      [] "Integer" \in {lhs.type, rhs.type} -> "Integer"
      [] OTHER -> ""

\* impl Add / Sub / Mul for NodeValue (op is "+", "-" or "*")
RECURSIVE NodeValue_arith(_, _, _)
NodeValue_arith(op, lhs, rhs) ==
    CASE lhs.type = "ValueError" -> ValueError(lhs.err)
      [] rhs.type = "ValueError" -> ValueError(rhs.err)
      [] lhs.type = rhs.type /\ lhs.type \in NumericTypes -> SameKind(op, lhs, rhs)
      [] ConversionType(lhs, rhs) # "" ->
           NodeValue_arith(op, as_type(lhs, ConversionType(lhs, rhs)),
                               as_type(rhs, ConversionType(lhs, rhs)))
      [] OTHER -> ValueError("Cannot add")

\* the number of times the operator calls itself on converted operands
RECURSIVE NodeValue_arith_retries(_, _, _)
NodeValue_arith_retries(op, lhs, rhs) ==
    CASE lhs.type = "ValueError" -> 0
      [] rhs.type = "ValueError" -> 0
      [] lhs.type = rhs.type /\ lhs.type \in NumericTypes -> 0
      [] ConversionType(lhs, rhs) # "" ->
           1 + NodeValue_arith_retries(op, as_type(lhs, ConversionType(lhs, rhs)),
                                           as_type(rhs, ConversionType(lhs, rhs)))
      [] OTHER -> 0

\* the zero test at the head of impl Div for NodeValue
IsZero(val) == val.type \in NumericTypes /\ val.v = 0

\* impl Div for NodeValue
RECURSIVE NodeValue_div(_, _)
NodeValue_div_by_zero(lhs, rhs) ==
    CASE IsZero(rhs) -> lhs
      [] ~IsZero(rhs) /\ lhs.type = "ValueError" -> ValueError(lhs.err)
      [] ~IsZero(rhs) /\ lhs.type # "ValueError" /\ rhs.type = "ValueError" ->
           ValueError(rhs.err)
      [] ~IsZero(rhs) /\ lhs.type = rhs.type /\ lhs.type \in FloatTypes ->
           Ratio(lhs.type, lhs.v * rhs.d, lhs.d * rhs.v)
      [] ~IsZero(rhs) /\ lhs.type = rhs.type /\ lhs.type = "BigInteger" ->
           (IF ~Divides(rhs.v, lhs.v) THEN BigFloat(lhs.v, rhs.v)
            ELSE BigInteger(ExactQuotient(lhs.v, rhs.v)))
      [] ~IsZero(rhs) /\ lhs.type = rhs.type /\ lhs.type = "Integer" ->
           (IF lhs.v = I32Min /\ rhs.v = 0 - 1
            THEN ValuePanic("attempt to calculate the remainder with overflow")
            ELSE IF ~Divides(rhs.v, lhs.v) THEN Float(lhs.v, rhs.v)
            ELSE Integer(ExactQuotient(lhs.v, rhs.v)))
      [] OTHER ->
           (IF lhs.type # "ValueError" /\ rhs.type # "ValueError"
               /\ ConversionType(lhs, rhs) # ""
            THEN NodeValue_div(as_type(lhs, ConversionType(lhs, rhs)),
                               as_type(rhs, ConversionType(lhs, rhs)))
            ELSE ValueError("Cannot add"))

NodeValue_div(lhs, rhs) ==
    CASE IsZero(rhs) -> ValueError("Cannot divide by zero")
      [] ~IsZero(rhs) /\ lhs.type = "ValueError" -> ValueError(lhs.err)
      [] ~IsZero(rhs) /\ lhs.type # "ValueError" /\ rhs.type = "ValueError" ->
           ValueError(rhs.err)
      [] ~IsZero(rhs) /\ lhs.type = rhs.type /\ lhs.type \in FloatTypes ->
           Ratio(lhs.type, lhs.v * rhs.d, lhs.d * rhs.v)
      [] ~IsZero(rhs) /\ lhs.type = rhs.type /\ lhs.type = "BigInteger" ->
           (IF ~Divides(rhs.v, lhs.v) THEN BigFloat(lhs.v, rhs.v)
            ELSE BigInteger(ExactQuotient(lhs.v, rhs.v)))
      [] ~IsZero(rhs) /\ lhs.type = rhs.type /\ lhs.type = "Integer" ->
           (IF lhs.v = I32Min /\ rhs.v = 0 - 1
            THEN ValuePanic("attempt to calculate the remainder with overflow")
            ELSE IF ~Divides(rhs.v, lhs.v) THEN Float(lhs.v, rhs.v)
            ELSE Integer(ExactQuotient(lhs.v, rhs.v)))
      [] OTHER ->
           (IF lhs.type # "ValueError" /\ rhs.type # "ValueError"
               /\ ConversionType(lhs, rhs) # ""
            THEN NodeValue_div(as_type(lhs, ConversionType(lhs, rhs)),
                               as_type(rhs, ConversionType(lhs, rhs)))
            ELSE ValueError("Cannot add"))

\* the closures StateNode::add / sub / mul / div hand to operator
NodeValueOp(op, lhs, rhs) ==
    IF op = "/" THEN NodeValue_div(lhs, rhs) ELSE NodeValue_arith(op, lhs, rhs)

\* StateNode::as_node_value
as_node_value(state) ==
    CASE state.kind = "RuntimeErr" -> ValuePanic("unreachable")
      [] state.kind = "Value" -> state.val
      [] OTHER -> ValueError("Cannot convert to NodeValue")

operator_rhs_first(lhs, rhs, op) ==
    IF rhs.kind \in {"RuntimeErr", "Panic"} THEN rhs
    ELSE IF lhs.kind \in {"RuntimeErr", "Panic"} THEN lhs
    ELSE LET lhv == as_node_value(lhs)
             rhv == as_node_value(rhs)
         IN  IF lhv.type = "ValueError" THEN RuntimeErr(lhv.err)
             ELSE IF rhv.type = "ValueError" THEN RuntimeErr(rhv.err)
             ELSE LET val == NodeValueOp(op, lhv, rhv)
                  IN  CASE val.type = "ValueError" -> RuntimeErr(val.err)
                        [] val.type = "Panic" -> Panic(val.err)
                        [] OTHER -> Value(val)

\* StateNode::operator
operator(lhs, rhs, op) ==
    IF lhs.kind \in {"RuntimeErr", "Panic"} THEN lhs
    ELSE IF rhs.kind \in {"RuntimeErr", "Panic"} THEN rhs
    ELSE LET lhv == as_node_value(lhs)
             rhv == as_node_value(rhs)
         IN  IF lhv.type = "ValueError" THEN RuntimeErr(lhv.err)
             ELSE IF rhv.type = "ValueError" THEN RuntimeErr(rhv.err)
             ELSE LET val == NodeValueOp(op, lhv, rhv)
                  IN  CASE val.type = "ValueError" -> RuntimeErr(val.err)
                        [] val.type = "Panic" -> Panic(val.err)
                        [] OTHER -> Value(val)

\* EnvFrame::eval_as::<T>, T named by its NodeType
eval_as(type, node) ==
    IF node.leaf = <<>>
    THEN RuntimeErr("EVAL_AS called on branch node, leaf node expected.")
    ELSE LET parsed == parse_value(type, node.leaf[1].value)
         IN  IF parsed.type = "ValueError" THEN RuntimeErr(parsed.err)
             ELSE Value(parsed)

\* EnvFrame::eval_as::<i32>
eval_as_i32(node) == eval_as("Integer", node)

\* lang/math env(): VirtualEnv.definitions, name -> callback; a callback is
\* denoted by the name under which lang/math registers it
MathEnv == [n \in {"ADD", "SUB", "MULT", "DIV", "INTEGER", "FLOAT"} |-> n]

\* the operator each arithmetic callback of lang/math applies
CallbackOp(cb) ==
    CASE cb = "ADD" -> "+" [] cb = "SUB" -> "-" [] cb = "MULT" -> "*" [] cb = "DIV" -> "/"

RECURSIVE eval_node(_, _)
RECURSIVE eval_lambda(_, _, _)
RECURSIVE lambda(_, _, _, _)
RECURSIVE eval_branch(_, _, _, _)
RECURSIVE EnvFrame_eval(_, _, _)

\* EnvFrame::eval_branch: self.node.nodes[self.args[branch] as usize - 1]
eval_branch(env, node, args, branch) ==
    LET index == args[branch]
    IN  IF index >= 1 /\ index <= Len(node.nodes)
        THEN eval_node(env, node.nodes[index])
        ELSE IF index = 0 /\ overflow_checks
             THEN Panic("attempt to subtract with overflow")
             ELSE Panic("index out of bounds")

\* the operation EnvFrame::eval hands back for one evaluated child; a panic
\* of the evaluation goes through
UniOpOf(a) == IF a.kind = "Panic" THEN ExecPanic(a.err) ELSE UniOp(a)

\* the operation EnvFrame::eval hands back for two evaluated children, the
\* first being evaluated first
BinOpOf(a, b) ==
    IF a.kind = "Panic" THEN ExecPanic(a.err)
    ELSE IF b.kind = "Panic" THEN ExecPanic(b.err)
    ELSE BinOp(a, b)

EnvFrame_eval_swapped(env, node, args) ==
    CASE Len(args) = 1 -> UniOpOf(eval_branch(env, node, args, 1))
      [] Len(args) = 2 ->
           BinOpOf(eval_branch(env, node, args, 2), eval_branch(env, node, args, 1))
      [] OTHER -> Root(StateNodeOf(node))

\* EnvFrame::eval
EnvFrame_eval(env, node, args) ==
    CASE Len(args) = 1 -> UniOpOf(eval_branch(env, node, args, 1))
      [] Len(args) = 2 ->
           BinOpOf(eval_branch(env, node, args, 1), eval_branch(env, node, args, 2))
      [] OTHER -> Root(StateNodeOf(node))

eval_noop(env, node) ==
    IF node.lambda.kind = "Eval" THEN StateNone ELSE eval_node(env, node)

\* VirtualEnv::eval
eval(env, node) ==
    IF node.lambda.kind = "Eval"
    THEN RuntimeErr("Recursion Error: Cannot EVAL on node with EVAL lambda")
    ELSE eval_node(env, node)

\* the match of an arithmetic callback on frame.eval()
ApplyExec(exec, op) ==
    CASE exec.kind = "BinOp" -> operator(exec.ops[1], exec.ops[2], op)
      [] exec.kind = "Panic" -> exec.ops[1]
      [] OTHER -> RuntimeErr("Something")

\* the callbacks lang/math env() registers, applied to a frame
Callback(cb, env, node, args) ==
    CASE cb = "INTEGER" -> eval_as("Integer", node)
      [] cb = "FLOAT" -> eval_as("Float", node)
      [] cb \in {"ADD", "SUB", "MULT", "DIV"} ->
           ApplyExec(EnvFrame_eval(env, node, args), CallbackOp(cb))
      [] OTHER -> RuntimeErr("No lambda found")

lambda_unnamed(env, name, node, args) ==
    IF name \notin DOMAIN env THEN RuntimeErr("No lambda found")
    ELSE Callback(env[name], env, node, args)

\* VirtualEnv::lambda
lambda(env, name, node, args) ==
    IF name \notin DOMAIN env THEN RuntimeErr("No lambda found for " \o name)
    ELSE Callback(env[name], env, node, args)

eval_lambda_own(env, node, lam) ==
    CASE lam.kind = "Eval" -> eval(env, node)
      [] lam.kind = "Lambda" -> lambda(env, lam.name, node, lam.args)
      [] lam.kind = "EvalAs" -> lambda(env, lam.name, node, <<>>)
      [] lam.kind = "GetExpr" ->
           (IF lam.arg >= 1 /\ lam.arg <= Len(node.nodes)
            THEN eval_node(env, node.nodes[lam.arg])
            ELSE RuntimeErr("No node found for index"))
      [] OTHER -> RuntimeErr("No lambda eval found")

\* VirtualEnv::eval_lambda.  node.nodes.get(*arg as usize - 1): the index 0
\* wraps to usize::MAX in a build without overflow checks
eval_lambda(env, node, lam) ==
    CASE lam.kind = "Eval" -> eval(env, node)
      [] lam.kind = "Lambda" -> lambda(env, lam.name, node, lam.args)
      [] lam.kind = "EvalAs" -> lambda(env, lam.name, node, <<>>)
      [] lam.kind = "GetExpr" ->
           (IF lam.arg = 0 /\ overflow_checks
            THEN Panic("attempt to subtract with overflow")
            ELSE IF lam.arg >= 1 /\ lam.arg <= Len(node.nodes)
                 THEN eval_lambda(env, node.nodes[lam.arg], lam.subs[1])
                 ELSE RuntimeErr("No node found for index"))
      [] OTHER -> RuntimeErr("No lambda eval found")

\* VirtualEnv::eval_node / VirtualEnv::exec
eval_node(env, node) == eval_lambda(env, node, node.lambda)

\* the identifier storage of a new VirtualEnv: no name has a value
NoIdents == <<>>

\* VirtualEnv::set_ident: the storage with `name` bound to `val`
set_ident(store, name, val) ==
    [n \in DOMAIN store \cup {name} |-> IF n = name THEN val ELSE store[n]]

exec_result_node_ok(state) ==
    CASE state.kind = "None" -> [ok |-> TRUE, text |-> <<"N", "o", "n", "e">>]
      [] state.kind = "Value" ->
           [ok |-> TRUE,
            text |-> IF to_string(state.val).ok THEN to_string(state.val).text ELSE <<>>]
      [] state.kind = "RuntimeErr" -> [ok |-> FALSE, text |-> <<state.err>>]
      [] state.kind = "Node" -> [ok |-> TRUE, text |-> <<"Node Result">>]
      [] OTHER -> [ok |-> FALSE, text |-> <<"panic">>]

\* Executor::exec, after a successful parse_tree.  An Ok carries the text by
\* its characters, an Err the message as a whole
exec_result(state) ==
    CASE state.kind = "None" -> [ok |-> TRUE, text |-> <<"N", "o", "n", "e">>]
      [] state.kind = "Value" ->
           [ok |-> TRUE,
            text |-> IF to_string(state.val).ok THEN to_string(state.val).text ELSE <<>>]
      [] state.kind = "RuntimeErr" -> [ok |-> FALSE, text |-> <<state.err>>]
      [] state.kind = "Node" -> [ok |-> FALSE, text |-> <<"Node Result">>]
      [] OTHER -> [ok |-> FALSE, text |-> <<"panic">>]

(***************************************************************************)
(* The engine as a state machine                                           *)
(*                                                                         *)
(* A frame is one activation of Expression::get.  depth0, start and tried  *)
(* are observations only: the depth of the save stack and the pending end  *)
(* when the activation began, and the pending end at each alternative an   *)
(* ExprOr attempted.  No step reads them.                                  *)
(***************************************************************************)
Frame(expr, lam, ptr) ==
    [expr |-> expr, lambda |-> lam,
     pc |-> IF expr.kind = "ExprOr" THEN "loop" ELSE "start",
     i |-> 1, nodes |-> <<>>,
     depth0 |-> Len(ptr.stack), start |-> EndPos(ptr), tried |-> <<>>]

Top == Last(frames)

Running == frames # <<>>

\* an unfinished entry of `results`, filled in when the call returns
Pending(call, ptr) ==
    [call |-> call, done |-> FALSE, ok |-> FALSE, ast |-> <<>>, err |-> NoError,
     value |-> StateNone, out |-> [ok |-> FALSE, text |-> <<>>],
     before |-> ptr, after |-> ptr]

\* the record of the last single operation applied to the cursor, the lexer
\* or a definition table: an observation only, no step reads it
Op(op, before, arg, out) ==
    [op |-> op, before |-> before, arg |-> arg, out |-> out, n |-> last.n + 1]

NoOp == [op |-> "", before |-> new_pointer, arg |-> <<>>, out |-> <<>>, n |-> 0]

Init ==
    /\ \E k \in 1..Len(Scenarios) :
          /\ lexer = Scenarios[k].lexer
          /\ parser = Scenarios[k].parser
          /\ content \in Scenarios[k].inputs
    /\ pointer = new_pointer
    /\ frames = <<>>
    /\ ret = NoRet
    /\ mode = "idle"
    /\ results = <<>>
    /\ venv = MathEnv
    /\ saved = <<>>
    /\ last = NoOp
    /\ registered = <<>>
    /\ overflow_checks \in BOOLEAN
    /\ idents = NoIdents

\* Parser::parse_tree (directly, or as the first line of Executor::exec)
\* when the rule EXPR is defined: expr.get(...) is entered
ParseTreeCall ==
    /\ mode = "idle"
    /\ Len(results) < MaxCalls
    /\ "EXPR" \in DOMAIN parser
    /\ \E call \in {"parse_tree", "exec"} :
          /\ mode' = call
          /\ results' = Append(results, Pending(call, pointer))
    /\ frames' = << Frame(parser["EXPR"].expr, parser["EXPR"].lambda, pointer) >>
    /\ ret' = NoRet
    /\ UNCHANGED <<overflow_checks, idents, venv, saved, last, registered, lexer, parser, content, pointer>>

\* Parser::parse_tree when the rule EXPR is not defined
ParseTreeNoExpr ==
    /\ mode = "idle"
    /\ Len(results) < MaxCalls
    /\ "EXPR" \notin DOMAIN parser
    /\ \E call \in {"parse_tree", "exec"} :
          results' = Append(results,
                        [Pending(call, pointer) EXCEPT !.done = TRUE, !.err = ErrNoExprRule,
                            !.out = [ok |-> FALSE, text |-> <<ErrNoExprRule.msg>>]])
    /\ UNCHANGED <<overflow_checks, idents, venv, saved, last, registered, lexer, parser, content, pointer, frames, ret, mode>>

\* Parser::parse_tree after expr.get returned Ok: commit, wrap the root;
\* Executor::exec goes on to set the identifier "thing" and to evaluate the
\* tree
ParseTreeOk ==
    /\ mode # "idle" /\ ~Running /\ ret.some /\ ret.ok
    /\ pointer' = commit(pointer)
    /\ LET state == IF mode = "exec" THEN eval_node(venv, ret.node[1]) ELSE StateNone
       IN  results' = [results EXCEPT ![Len(results)] =
                         [@ EXCEPT !.done = TRUE, !.ok = TRUE, !.ast = ret.node,
                                   !.value = state,
                                   !.out = IF mode = "exec" THEN exec_result(state) ELSE @,
                                   !.after = commit(pointer)]]
    /\ idents' = IF mode = "exec" THEN set_ident(idents, "thing", Integer(0 - 1)) ELSE idents
    /\ mode' = "idle"
    /\ ret' = NoRet
    /\ UNCHANGED <<overflow_checks, venv, saved, last, registered, lexer, parser, content, frames>>

\* Parser::parse_tree after expr.get returned Err: `?` returns it
ParseTreeErr ==
    /\ mode # "idle" /\ ~Running /\ ret.some /\ ~ret.ok
    /\ results' = [results EXCEPT ![Len(results)] =
                     [@ EXCEPT !.done = TRUE, !.err = ret.err,
                               !.out = [ok |-> FALSE, text |-> <<ret.err.msg>>],
                               !.after = pointer]]
    /\ mode' = "idle"
    /\ ret' = NoRet
    /\ UNCHANGED <<overflow_checks, idents, venv, saved, last, registered, lexer, parser, content, pointer, frames>>

\* a callee returns r to its caller
Return(r) ==
    /\ frames' = Front(frames)
    /\ ret' = r

\* the deepest nesting of Expression::get the model follows
MaxDepth == 24

\* the caller enters expr.get(...) for a sub-expression
Call(caller, expr, lam, ptr) ==
    /\ Len(frames) < MaxDepth
    /\ frames' = Append(Front(frames), caller) \o << Frame(expr, lam, ptr) >>
    /\ ret' = NoRet

\* Expression::get_expr_or: reader.push() and subexpr.get(...) for the
\* next alternative
GetExprOrTry ==
    /\ Running /\ Top.expr.kind = "ExprOr" /\ Top.pc = "loop"
    /\ Top.i <= Len(Top.expr.subs)
    /\ pointer' = push(pointer)
    /\ Call([Top EXCEPT !.pc = "wait", !.tried = Append(@, EndPos(pointer))],
            Top.expr.subs[Top.i], AltLambda(Top.lambda, Top.i), push(pointer))
    /\ UNCHANGED <<overflow_checks, idents, venv, saved, last, registered, lexer, parser, content, mode, results>>

\* Expression::get_expr_or: the loop is over, no alternative matched
GetExprOrNoMatch ==
    /\ Running /\ Top.expr.kind = "ExprOr" /\ Top.pc = "loop"
    /\ Top.i > Len(Top.expr.subs)
    /\ Return(Err(ErrNoMatch, Top))
    /\ UNCHANGED <<overflow_checks, idents, venv, saved, last, registered, lexer, parser, content, pointer, mode, results>>

\* Expression::get_expr_or: Ok(node) => return Ok(node)
GetExprOrOk ==
    /\ Running /\ Top.expr.kind = "ExprOr" /\ Top.pc = "wait"
    /\ ret.some /\ ret.ok
    /\ Return(Ok(ret.node[1], Top))
    /\ UNCHANGED <<overflow_checks, idents, venv, saved, last, registered, lexer, parser, content, pointer, mode, results>>

\* Expression::get_expr_or: Err(_) => reader.pop(); continue
GetExprOrErr ==
    /\ Running /\ Top.expr.kind = "ExprOr" /\ Top.pc = "wait"
    /\ ret.some /\ ~ret.ok
    /\ pointer' = pop(pointer)
    /\ frames' = Append(Front(frames), [Top EXCEPT !.pc = "loop", !.i = @ + 1])
    /\ ret' = NoRet
    /\ UNCHANGED <<overflow_checks, idents, venv, saved, last, registered, lexer, parser, content, mode, results>>

\* Expression::get_sub_expr: reader.push() on entry
GetSubExprStart ==
    /\ Running /\ Top.expr.kind = "SubExpr" /\ Top.pc = "start"
    /\ pointer' = push(pointer)
    /\ frames' = Append(Front(frames), [Top EXCEPT !.pc = "loop"])
    /\ UNCHANGED <<overflow_checks, idents, venv, saved, last, registered, lexer, parser, content, ret, mode, results>>

\* Expression::get_sub_expr: subexpr.get(...) for the next sub-expression
GetSubExprNext ==
    /\ Running /\ Top.expr.kind = "SubExpr" /\ Top.pc = "loop"
    /\ Top.i <= Len(Top.expr.subs)
    /\ Call([Top EXCEPT !.pc = "wait"], Top.expr.subs[Top.i], SubLambda, pointer)
    /\ UNCHANGED <<overflow_checks, idents, venv, saved, last, registered, lexer, parser, content, pointer, mode, results>>

\* Expression::get_sub_expr: Ok(TreeNode::from_nodes(nodes))
GetSubExprDone ==
    /\ Running /\ Top.expr.kind = "SubExpr" /\ Top.pc = "loop"
    /\ Top.i > Len(Top.expr.subs)
    /\ Return(Ok(from_nodes(Top.nodes, Top.lambda), Top))
    /\ UNCHANGED <<overflow_checks, idents, venv, saved, last, registered, lexer, parser, content, pointer, mode, results>>

\* Expression::get_sub_expr: a sub-expression failed: reader.pop();
\* return Err(err)
GetSubExprErr ==
    /\ Running /\ Top.expr.kind = "SubExpr" /\ Top.pc = "wait"
    /\ ret.some /\ ~ret.ok
    /\ pointer' = pop(pointer)
    /\ Return(Err(ret.err, Top))
    /\ UNCHANGED <<overflow_checks, idents, venv, saved, last, registered, lexer, parser, content, mode, results>>

\* Expression::get_sub_expr: nodes.push(node_result.unwrap())
GetSubExprOk ==
    /\ Running /\ Top.expr.kind = "SubExpr" /\ Top.pc = "wait"
    /\ ret.some /\ ret.ok
    /\ frames' = Append(Front(frames),
                    [Top EXCEPT !.pc = "loop", !.i = @ + 1,
                                !.nodes = Append(@, ret.node[1])])
    /\ ret' = NoRet
    /\ UNCHANGED <<overflow_checks, idents, venv, saved, last, registered, lexer, parser, content, pointer, mode, results>>

\* Expression::get_expr: reader.push(); parser.get_expr(expr)? fails
GetExprUndefined ==
    /\ Running /\ Top.expr.kind = "Expr" /\ Top.pc = "start"
    /\ Top.expr.name \notin DOMAIN parser
    /\ pointer' = push(pointer)
    /\ Return(Err(ErrNoDefinition(Top.expr.name), Top))
    /\ UNCHANGED <<overflow_checks, idents, venv, saved, last, registered, lexer, parser, content, mode, results>>

\* get_expr that evaluates the rule under the instruction of the reference
\* instead of the rule's own
GetExprCall_keeps_lambda ==
    /\ Running /\ Top.expr.kind = "Expr" /\ Top.pc = "start"
    /\ Top.expr.name \in DOMAIN parser
    /\ pointer' = push(pointer)
    /\ Call([Top EXCEPT !.pc = "wait"], parser[Top.expr.name].expr,
            Top.lambda, push(pointer))
    /\ UNCHANGED <<overflow_checks, idents, venv, saved, last, registered, lexer, parser, content, mode, results>>

\* get_expr that fails instead of entering the rule
GetExprCall_no_entry ==
    /\ Running /\ Top.expr.kind = "Expr" /\ Top.pc = "start"
    /\ Top.expr.name \in DOMAIN parser
    /\ pointer' = push(pointer)
    /\ Return(Err(ErrNoDefinition(Top.expr.name), Top))
    /\ UNCHANGED <<overflow_checks, idents, venv, saved, last, registered, lexer, parser, content, mode, results>>

\* Expression::get_expr: reader.push(); the rule's ParserDef::get
GetExprCall ==
    /\ Running /\ Top.expr.kind = "Expr" /\ Top.pc = "start"
    /\ Top.expr.name \in DOMAIN parser
    /\ pointer' = push(pointer)
    /\ Call([Top EXCEPT !.pc = "wait"], parser[Top.expr.name].expr,
            parser[Top.expr.name].lambda, push(pointer))
    /\ UNCHANGED <<overflow_checks, idents, venv, saved, last, registered, lexer, parser, content, mode, results>>

\* Expression::get_expr: if let Err(_) = node { reader.pop(); } node
GetExprRet ==
    /\ Running /\ Top.expr.kind = "Expr" /\ Top.pc = "wait"
    /\ ret.some
    /\ pointer' = IF ret.ok THEN pointer ELSE pop(pointer)
    /\ Return(IF ret.ok THEN Ok(ret.node[1], Top) ELSE Err(ret.err, Top))
    /\ UNCHANGED <<overflow_checks, idents, venv, saved, last, registered, lexer, parser, content, mode, results>>

\* Expression::get_token
GetToken ==
    /\ Running /\ Top.expr.kind = "Token" /\ Top.pc = "start"
    /\ LET tok == get_next_token(lexer, Top.expr.name, content, pointer)
       IN  IF tok = <<>>
           THEN /\ Return(Err(ErrNoToken(Top.expr.name), Top))
                /\ pointer' = pointer
           ELSE IF Top.expr.value # <<>> /\ tok[1].value # Top.expr.value
           THEN /\ Return(Err(ErrNoTokenValue(Top.expr.name), Top))
                /\ pointer' = pointer
           ELSE /\ pointer' = next(content, pointer,
                                   tok[1].position.read_pos[2] - tok[1].position.read_pos[1])
                /\ Return(Ok(from_token(tok[1], Top.lambda), Top))
    /\ UNCHANGED <<overflow_checks, idents, venv, saved, last, registered, lexer, parser, content, mode, results>>

Next ==
    \/ ParseTreeCall
    \/ ParseTreeNoExpr
    \/ ParseTreeOk
    \/ ParseTreeErr
    \/ GetExprOrTry
    \/ GetExprOrNoMatch
    \/ GetExprOrOk
    \/ GetExprOrErr
    \/ GetSubExprStart
    \/ GetSubExprNext
    \/ GetSubExprDone
    \/ GetSubExprErr
    \/ GetSubExprOk
    \/ GetExprUndefined
    \/ GetExprCall
    \/ GetExprRet
    \/ GetToken

Spec == Init /\ [][Next]_vars

\* the same engine, run to the end of every call, on the grammars above and
\* on the left-recursive one.  The program is sequential: a step that can be
\* taken is taken.
LeftRecInputs == { <<"a", "d">>, <<"a">>, <<>> }

RecInit ==
    /\ \/ \E k \in 1..Len(Scenarios) :
             /\ lexer = Scenarios[k].lexer
             /\ parser = Scenarios[k].parser
             /\ content \in Scenarios[k].inputs
       \/ /\ lexer = LexerABC
          /\ parser = ParserLeftRec
          /\ content \in LeftRecInputs
    /\ pointer = new_pointer
    /\ frames = <<>>
    /\ ret = NoRet
    /\ mode = "idle"
    /\ results = <<>>
    /\ venv = MathEnv
    /\ saved = <<>>
    /\ last = NoOp
    /\ registered = <<>>
    /\ overflow_checks \in BOOLEAN
    /\ idents = NoIdents

RecSpec == RecInit /\ [][Next]_vars /\ WF_vars(Next)

(***************************************************************************)
(* Rendering and expected trees of the crate's own tests                   *)
(***************************************************************************)
\* Expression::token: a token with the zero position
token(expr) ==
    NewToken(expr.name, expr.value, from_pos(<<0, 0, 0, 0>>, <<0, 0>>))

\* TreeNode::from_expr, for expressions without Expr references
RECURSIVE from_expr(_)
from_expr(expr) ==
    IF expr.kind = "Token" THEN from_token(token(expr), Eval)
    ELSE from_nodes([k \in 1..Len(expr.subs) |-> from_expr(expr.subs[k])], Eval)

\* impl Display for TreeNode / Token, as a sequence of pieces
RECURSIVE Display(_)
RECURSIVE DisplayNodes(_, _)
DisplayNodes(nodes, k) ==
    IF k > Len(nodes) THEN <<>>
    ELSE (IF k > 1 THEN <<" ">> ELSE <<>>) \o Display(nodes[k]) \o DisplayNodes(nodes, k + 1)

Display(node) ==
    IF node.leaf # <<>>
    THEN <<node.leaf[1].token_type, ":">> \o node.leaf[1].value
    ELSE <<"( ">> \o DisplayNodes(node.nodes, 1) \o <<" )">>

\* parser/macros.rs, assert_ast_sub_expr: input and expected tree
InputSubExpr == <<"1", "+", "2", "+", "3">>

ExpSubExpr ==
    ExprOr(<< Token("num", <<"1">>), Token("op", <<"+">>),
              SubExpr(<< Token("num", <<"2">>), Token("op", <<"+">>),
                         Token("num", <<"3">>) >>) >>)

\* parser/macros.rs, assert_ast_sub_expr_sub_expr: input and expected tree
InputSubExprSubExpr == <<"1", "+", "(", "2", "+", "3", ")">>

ExpSubExprSubExpr ==
    ExprOr(<< Token("num", <<"1">>), Token("op", <<"+">>),
              SubExpr(<< Token("op", <<"(">>),
                         SubExpr(<< Token("num", <<"2">>), Token("op", <<"+">>),
                                    Token("num", <<"3">>) >>),
                         Token("op", <<")">>) >>) >>)

\* the input of the end-to-end scenario
InputArith == <<"(", "2", "+", "3", ")", "*", "4">>

\* end of the last leaf and start of the first leaf of a tree
RECURSIVE LastLeafEnd(_)
LastLeafEnd(node) ==
    IF node.leaf # <<>>
    THEN <<node.leaf[1].position.read_pos[2],
           node.leaf[1].position.line_pos[3], node.leaf[1].position.line_pos[4]>>
    ELSE LastLeafEnd(Last(node.nodes))

RECURSIVE FirstLeafStart(_)
FirstLeafStart(node) ==
    IF node.leaf # <<>> THEN node.leaf[1].position.read_pos[1]
    ELSE FirstLeafStart(node.nodes[1])

\* does a Token expression match the text at an offset
TokenMatchesAt(expr, offset) ==
    LET tok == get_next_token(lexer, expr.name, content,
                              from_pos(<<0, 0, 0, 0>>, <<offset, offset>>))
    IN  tok # <<>> /\ (expr.value = <<>> \/ tok[1].value = expr.value)

(***************************************************************************)
(* Properties                                                              *)
(***************************************************************************)

\* C1: every alternative of an ExprOr is attempted at the same pending end
\* (offset, line, column): after alternative k failed, whatever it had
\* consumed, alternative k+1 starts where alternative k started.
C1_BacktrackRestoresPosition ==
    \A k \in 1..Len(frames) :
        frames[k].expr.kind = "ExprOr" =>
            \A j \in 1..(Len(frames[k].tried) - 1) :
                frames[k].tried[j + 1] = frames[k].tried[j]

\* C2: a SubExpr that fails at one of its sub-expressions hands back a
\* failure without a node, and once the enclosing ExprOr has rolled back the
\* pending end is where the SubExpr started.
C2_SequenceAllOrNothing ==
    [][ ( /\ Running /\ Top.expr.kind = "ExprOr" /\ Top.pc = "wait"
          /\ ret.some /\ ~ret.ok /\ ret.from = "SubExpr" )
        => ( ret.node = <<>> /\ EndPos(pointer') = ret.start ) ]_vars

\* C3: when an ExprOr returns the result of alternative i, no alternative
\* before i matches at the position where the ExprOr was entered (checked
\* for the alternatives that are plain tokens).
C3_FirstAlternativeWins ==
    (ret.some /\ ret.ok /\ ret.from = "ExprOr") =>
        \A j \in 1..(ret.at - 1) :
            ret.expr.subs[j].kind = "Token"
                => ~TokenMatchesAt(ret.expr.subs[j], ret.start[1])

\* C4: with the FACTOR / TERM / EXPR rules, executing "(2+3)*4" consumes the
\* whole input and yields Value(Integer(20)).
C4_EndToEnd ==
    ( /\ parser = ParserArith /\ content = InputArith
      /\ Len(results) >= 1 /\ results[1].done /\ results[1].call = "exec" )
    => ( /\ results[1].ok
         /\ results[1].value = Value(Integer(20))
         /\ results[1].after.read_pos = <<Len(InputArith), Len(InputArith)>> )

\* C5: with EXPR -> VAL '+' EXPR | VAL, a chain parses to the branch nested
\* to the right that the crate's tests expect: "1+2+3" to ( 1 + ( 2 + 3 ) ),
\* "1+(2+3)" to ( 1 + ( ( ( 2 + 3 ) ) ) ); ExprOr and Expr add no level and a
\* SubExpr of N sub-expressions gives one branch of N children in order.
C5_RightNested ==
    ( /\ parser = ParserVal /\ Len(results) >= 1 /\ results[1].done )
    => /\ content = InputSubExpr =>
            ( /\ results[1].ok
              /\ Display(results[1].ast[1]) = Display(from_expr(ExpSubExpr)) )
       /\ content = InputSubExprSubExpr =>
            ( /\ results[1].ok
              /\ Display(results[1].ast[1]) = Display(from_expr(ExpSubExprSubExpr)) )

\* C6: after a successful parse_tree the cursor is committed (start = end in
\* offset, line and column) just past the last leaf of the returned tree,
\* and the next call starts at that position and returns text that lies
\* after it.
C6_CommitAfterParse ==
    \A k \in 1..Len(results) :
        (results[k].done /\ results[k].ok) =>
            /\ StartPos(results[k].after) = EndPos(results[k].after)
            /\ EndPos(results[k].after) = LastLeafEnd(results[k].ast[1])
            /\ k < Len(results) =>
                  /\ StartPos(results[k + 1].before) = EndPos(results[k].after)
                  /\ EndPos(results[k + 1].before) = EndPos(results[k].after)
                  /\ (results[k + 1].done /\ results[k + 1].ok) =>
                        FirstLeafStart(results[k + 1].ast[1]) >= results[k].after.read_pos[2]

\* C6 witness: two parse_tree calls in a row succeeded on one reader, the
\* second one on text after the first
C6_Witness ==
    /\ Len(results) >= 2
    /\ results[1].done /\ results[1].ok
    /\ results[2].done /\ results[2].ok
    /\ results[2].after.read_pos[2] > results[1].after.read_pos[2]

\* C7: once an Expr has failed because its rule is not defined, that error
\* is what every enclosing expression returns, up to parse_tree, which
\* returns it without a tree.
C7_UndefinedRuleIsFatal ==
    [][ ( ret.some /\ ~ret.ok /\ ret.err.msg = ErrNoDefinition("").msg )
        => \/ ( ret'.some /\ ~ret'.ok /\ ret'.err = ret.err )
           \/ ( /\ mode' = "idle"
                /\ Last(results').done /\ ~Last(results').ok
                /\ Last(results').err = ret.err
                /\ Last(results').ast = <<>> ) ]_vars

\* C8: a parse_tree call that fails leaves the start and the pending end of
\* the cursor (offset, line, column) as they were before the call.
C8_FailureLeavesCursor ==
    \A k \in 1..Len(results) :
        (results[k].done /\ ~results[k].ok) =>
            /\ StartPos(results[k].after) = StartPos(results[k].before)
            /\ EndPos(results[k].after) = EndPos(results[k].before)

\* C9: when an ExprOr returns a match the save stack is as deep as when the
\* ExprOr was entered, and the save stack is empty at the start of every
\* parse_tree call.
C9_ChoiceDiscardsSnapshot ==
    /\ (ret.some /\ ret.ok /\ ret.from = "ExprOr") => Len(pointer.stack) = ret.depth0
    /\ \A k \in 1..Len(results) : results[k].before.stack = <<>>

\* C10: a SubExpr changes nothing of the cursor itself, neither on entry
\* nor when one of its sub-expressions has failed: no push, no restore.
C10_SequenceDoesNotPush ==
    [][ ( /\ Running /\ Top.expr.kind = "SubExpr"
          /\ (Top.pc = "start" \/ (Top.pc = "wait" /\ ret.some /\ ~ret.ok)) )
        => pointer' = pointer ]_vars

(***************************************************************************)
(* The cursor alone (lexer/reader.rs, ReadPointer)                         *)
(*                                                                         *)
(* The operations of ReadPointer applied in any order to a new pointer.    *)
(* `saved` records the whole pointer as it was right before each push that *)
(* is still on the stack; `last` records the operation just applied.       *)
(***************************************************************************)
\* number of operations applied to one pointer
MaxCursorOps == 5

\* texts the pointer is moved over
CursorTexts ==
    { <<"a">>, <<NL>>, <<CR>>, <<CR, NL>>,
      <<"a", CR, NL, "b">>, <<"a", CR, "b", NL>> }

CursorInit ==
    /\ pointer = new_pointer
    /\ saved = <<>>
    /\ last = NoOp
    /\ mode = "cursor"
    /\ lexer = LexerABC
    /\ parser = ParserNoExpr
    /\ content = <<>>
    /\ frames = <<>>
    /\ ret = NoRet
    /\ results = <<>>
    /\ venv = MathEnv
    /\ registered = <<>>
    /\ overflow_checks \in BOOLEAN
    /\ idents = NoIdents

CursorStep(op, arg, ptr, sv) ==
    /\ mode = "cursor"
    /\ last.n < MaxCursorOps
    /\ pointer' = ptr
    /\ saved' = sv
    /\ last' = Op(op, pointer, arg, <<>>)
    /\ UNCHANGED <<overflow_checks, idents, lexer, parser, content, frames, ret, mode, results, venv, registered>>

\* ReadPointer::move_pointer(&mut ptr, raw)
CursorAdvance ==
    \E raw \in CursorTexts : CursorStep("advance", raw, move_pointer(pointer, raw), saved)

\* ptr.increment()
CursorIncrement == CursorStep("increment", <<>>, increment(pointer), saved)

\* ptr.increment_line()
CursorIncrementLine == CursorStep("increment_line", <<>>, increment_line(pointer), saved)

\* ptr.commit()
CursorCommit == CursorStep("commit", <<>>, commit(pointer), saved)

\* ptr.back()
CursorBack == CursorStep("back", <<>>, back(pointer), saved)

\* ptr.push()
CursorPush == CursorStep("push", <<>>, push(pointer), Append(saved, pointer))

\* ptr.pop()
CursorPop ==
    CursorStep("pop", <<>>, pop(pointer), IF saved = <<>> THEN saved ELSE Front(saved))

\* ptr.pull()
CursorPull ==
    CursorStep("pull", <<>>, pull(pointer), IF saved = <<>> THEN saved ELSE Front(saved))

CursorNext ==
    \/ CursorAdvance
    \/ CursorIncrement
    \/ CursorIncrementLine
    \/ CursorCommit
    \/ CursorBack
    \/ CursorPush
    \/ CursorPop
    \/ CursorPull

CursorSpec == CursorInit /\ [][CursorNext]_vars

(***************************************************************************)
(* Properties of the cursor alone                                          *)
(***************************************************************************)
\* C11: a pop() restores the pointer to exactly the state it had right before
\* the matching push(): offsets, lines and columns, and the saved stack;
\* nested pushes are undone in reverse order, whatever advance, line
\* increment, commit and back happened in between.
C11_PopRestoresPush ==
    [][ (mode = "cursor" /\ last'.op = "pop" /\ saved # <<>>)
        => (pointer' = Last(saved) /\ saved' = Front(saved)) ]_vars

\* a pop of the inner of two nested pushes that moved the position back
C11_Witness ==
    /\ mode = "cursor" /\ last.op = "pop"
    /\ Len(last.before.stack) >= 2
    /\ pointer.read_pos # last.before.read_pos
    /\ pointer.line_pos # last.before.line_pos

\* start <= end, as offsets and as (line, column) pairs
StartLeEnd(p) ==
    /\ p.read_pos[1] <= p.read_pos[2]
    /\ \/ p.line_pos[1] < p.line_pos[3]
       \/ (p.line_pos[1] = p.line_pos[3] /\ p.line_pos[2] <= p.line_pos[4])

\* C15: in every state reached from a new pointer by advance, commit, back,
\* push, pop and pull the start does not lie after the end, as an offset and
\* as a line/column pair.
C15_StartLeEnd ==
    mode = "cursor" => StartLeEnd(pointer)

\* a pop that moved the start back to where it was before a commit
C15_Witness ==
    /\ mode = "cursor" /\ last.op = "pop"
    /\ last.before.read_pos[1] > pointer.read_pos[1]
    /\ pointer.read_pos[2] < last.before.read_pos[2]

\* C16: commit() sets the start offset, line and column to the end values,
\* back() sets the end offset, line and column to the start values; the
\* other endpoint and the saved stack are unchanged and the span is empty.
C16_CommitBack ==
    /\ (mode = "cursor" /\ last.op = "commit") =>
          /\ pointer.read_pos = <<last.before.read_pos[2], last.before.read_pos[2]>>
          /\ pointer.line_pos = <<last.before.line_pos[3], last.before.line_pos[4],
                                  last.before.line_pos[3], last.before.line_pos[4]>>
          /\ pointer.stack = last.before.stack
          /\ len(pointer) = 0
    /\ (mode = "cursor" /\ last.op = "back") =>
          /\ pointer.read_pos = <<last.before.read_pos[1], last.before.read_pos[1]>>
          /\ pointer.line_pos = <<last.before.line_pos[1], last.before.line_pos[2],
                                  last.before.line_pos[1], last.before.line_pos[2]>>
          /\ pointer.stack = last.before.stack
          /\ len(pointer) = 0

\* a back() over a pending span that crossed a line, after an earlier commit
\* and with a snapshot on the stack
C16_Witness ==
    /\ mode = "cursor" /\ last.op = "back"
    /\ last.before.read_pos[1] > 0
    /\ last.before.line_pos[3] > last.before.line_pos[1]
    /\ last.before.stack # <<>>

\* the line breaks of a text: every \n, and every \r not followed by \n
LineBreaks(raw) ==
    { k \in 1..Len(raw) :
        \/ raw[k] = NL
        \/ (raw[k] = CR /\ ~(k < Len(raw) /\ raw[k + 1] = NL)) }

\* C17: advancing over a text adds its number of characters to the end
\* offset; each \n, each \r\n pair and each bare \r adds one to the end line
\* and resets the end column to 0, every other character adds one to the end
\* column; the start and the saved stack are unchanged.
C17_AdvanceCountsLines ==
    (mode = "cursor" /\ last.op = "advance") =>
        LET raw    == last.arg
            breaks == LineBreaks(raw)
            after  == IF breaks = {} THEN Len(raw)
                      ELSE Len(raw) - (CHOOSE k \in breaks : \A j \in breaks : j <= k)
        IN  /\ pointer.read_pos = <<last.before.read_pos[1],
                                    last.before.read_pos[2] + Len(raw)>>
            /\ pointer.line_pos[1] = last.before.line_pos[1]
            /\ pointer.line_pos[2] = last.before.line_pos[2]
            /\ pointer.line_pos[3] = last.before.line_pos[3] + Cardinality(breaks)
            /\ pointer.line_pos[4] = IF breaks = {} THEN last.before.line_pos[4] + after
                                     ELSE after
            /\ pointer.stack = last.before.stack

\* an advance over a text with a \r\n pair, from a column other than 0
C17_Witness ==
    /\ mode = "cursor" /\ last.op = "advance"
    /\ last.arg = <<"a", CR, NL, "b">>
    /\ last.before.line_pos[4] > 0
    /\ pointer.line_pos[3] = last.before.line_pos[3] + 1

(***************************************************************************)
(* Properties of token matching                                            *)
(***************************************************************************)
\* C12: get_token(type, expected): when the pattern of `type` matches at the
\* pending end and expected is empty or equal to the matched text, the
\* pending end advances by exactly the matched text (start and stack kept)
\* and a leaf holding that token is returned; otherwise (no match, token
\* type not defined, other text than expected) it fails and the cursor is
\* unchanged.
C12_TokenMatch ==
    [][ (Running /\ Top.expr.kind = "Token" /\ Top.pc = "start") =>
        LET name == Top.expr.name
            end  == pointer.read_pos[2]
            m    == IF name \in DOMAIN lexer
                    THEN RegexFind(lexer[name].regex, SubSeq(content, end + 1, Len(content)))
                    ELSE <<>>
        IN  IF m # <<>> /\ (Top.expr.value = <<>> \/ m = Top.expr.value)
            THEN /\ pointer'.read_pos = <<pointer.read_pos[1], end + Len(m)>>
                 /\ SubSeq(content, end + 1, pointer'.read_pos[2]) = m
                 /\ StartPos(pointer') = StartPos(pointer)
                 /\ EndPos(pointer') = EndPos(move_pointer(pointer, m))
                 /\ pointer'.stack = pointer.stack
                 /\ ret'.some /\ ret'.ok
                 /\ ret'.node[1].nodes = <<>>
                 /\ Len(ret'.node[1].leaf) = 1
                 /\ ret'.node[1].leaf[1].token_type = name
                 /\ ret'.node[1].leaf[1].value = m
            ELSE /\ pointer' = pointer
                 /\ ret'.some /\ ~ret'.ok /\ ret'.node = <<>> ]_vars

\* a token with an expected text was matched after an earlier token, with
\* snapshots on the stack
C12_Witness ==
    /\ ret.some /\ ret.ok /\ ret.from = "Token"
    /\ ret.expr.value # <<>>
    /\ ret.start[1] > 0
    /\ pointer.read_pos[2] = ret.start[1] + Len(ret.node[1].leaf[1].value)
    /\ pointer.stack # <<>>

(***************************************************************************)
(* Definition tables and the lexer alone                                   *)
(* (lexer/token.rs, parser/parser.rs, exec/exec.rs)                        *)
(*                                                                         *)
(* Lexer.definitions, Parser.definitions and VirtualEnv.definitions are    *)
(* HashMaps: functions from names.  A pattern is the text handed to        *)
(* Lexer::define, a sequence of characters; build_regex compiles the       *)
(* shapes the crate's lexers use, a bracketed class with an optional `+`   *)
(* ([a-c]+) and an alternation of single, possibly escaped, characters     *)
(* (\+|\(), and rejects what the regex crate rejects among them.           *)
(***************************************************************************)
\* insert that keeps the value of a key that is already present
insert_if_absent(map, key, value) ==
    [k \in DOMAIN map \cup {key} |-> IF k \in DOMAIN map THEN map[k] ELSE value]

\* HashMap::insert
insert(map, key, value) ==
    [k \in DOMAIN map \cup {key} |-> IF k = key THEN value ELSE map[k]]

\* the characters ordered as in ASCII, for ranges in a class
Alphabet == << "0", "1", "2", "3", "4", "5", "6", "7", "8", "9",
               "a", "b", "c", "d", "e", "f", "g", "h", "i" >>

Ord(c) == CHOOSE k \in 1..Len(Alphabet) : Alphabet[k] = c

BS == "\\"

\* characters that do not stand for themselves outside a class
Special == {"(", ")", "[", "+", "*", "|", BS}

RegexOk(class, many) == [ok |-> TRUE, regex |-> [class |-> class, many |-> many]]

RegexErr == [ok |-> FALSE, regex |-> [class |-> {}, many |-> FALSE]]

\* the items between `[` and `]`: single characters and ranges x-y;
\* a range with y before x is an error
RECURSIVE ClassItems(_)
ClassItems(items) ==
    IF items = <<>> THEN RegexOk({}, FALSE)
    ELSE IF Len(items) >= 3 /\ items[2] = "-"
    THEN LET rest == ClassItems(SubSeq(items, 4, Len(items)))
         IN  IF Ord(items[1]) > Ord(items[3]) \/ ~rest.ok THEN RegexErr
             ELSE RegexOk({Alphabet[k] : k \in Ord(items[1])..Ord(items[3])}
                            \cup rest.regex.class, FALSE)
    ELSE LET rest == ClassItems(Tail(items))
         IN  IF ~rest.ok THEN RegexErr
             ELSE RegexOk({Head(items)} \cup rest.regex.class, FALSE)

\* the alternatives of x|y|...: each one character, or a backslash and a
\* special character; a bare special character is an error
RECURSIVE Alternatives(_)
Alternatives(pattern) ==
    LET one == IF Head(pattern) = BS THEN 2 ELSE 1
        c   == pattern[one]
        ok  == IF one = 2 THEN c \in Special ELSE c \notin Special
    IN  CASE ~ok -> RegexErr
          [] ok /\ Len(pattern) = one -> RegexOk({c}, FALSE)
          [] ok /\ Len(pattern) > one + 1 /\ pattern[one + 1] = "|" ->
               LET rest == Alternatives(SubSeq(pattern, one + 2, Len(pattern)))
               IN  IF rest.ok THEN RegexOk({c} \cup rest.regex.class, FALSE)
                   ELSE RegexErr

\* TokenDef::build_regex: Regex::new("\A(" + pattern + ")")
build_regex(pattern) ==
    IF Head(pattern) = "["
    THEN LET closing == {k \in 3..Len(pattern) : pattern[k] = "]"}
         IN  IF closing = {} THEN RegexErr
             ELSE LET c     == CHOOSE k \in closing : \A j \in closing : k <= j
                      class == ClassItems(SubSeq(pattern, 2, c - 1))
                  IN  CASE ~class.ok -> RegexErr
                        [] class.ok /\ c = Len(pattern) ->
                             RegexOk(class.regex.class, FALSE)
                        [] class.ok /\ c + 1 = Len(pattern) /\ pattern[c + 1] = "+" ->
                             RegexOk(class.regex.class, TRUE)
    ELSE Alternatives(pattern)

\* TokenDef::new (Result<TokenDef, String>)
TokenDef_new(token_type, pattern) ==
    LET r == build_regex(pattern)
    IN  IF r.ok THEN [ok |-> TRUE, def |-> [token_type |-> token_type, regex |-> r.regex]]
        ELSE [ok |-> FALSE, def |-> [token_type |-> token_type, regex |-> r.regex]]

\* Lexer::define_token
define_token(lex, def) == insert(lex, def.token_type, def)

\* define that drops the type's earlier definition when the pattern does
\* not compile
Lexer_define_drops(lex, token_type, pattern) ==
    LET r == TokenDef_new(token_type, pattern)
    IN  IF r.ok THEN [ok |-> TRUE, lexer |-> define_token(lex, r.def)]
        ELSE [ok |-> FALSE, lexer |-> [k \in DOMAIN lex \ {token_type} |-> lex[k]]]

\* Lexer::define: self.define_token(TokenDef::new(token_type, regex)?); Ok(())
Lexer_define(lex, token_type, pattern) ==
    LET r == TokenDef_new(token_type, pattern)
    IN  IF r.ok THEN [ok |-> TRUE, lexer |-> define_token(lex, r.def)]
        ELSE [ok |-> FALSE, lexer |-> lex]

\* Parser::define
Parser_define(prs, expr_type, expr, lam) == insert(prs, expr_type, ParserDef(expr, lam))

\* VirtualEnv::define
VirtualEnv_define(definitions, lambda_type, cb) == insert(definitions, lambda_type, cb)

\* Lexer::get_next_any: the first definition, in the order in which
\* HashMap::keys() yields them, whose pattern matches.  That order is not
\* fixed by the registrations (std HashMap, RandomState), so every
\* definition that matches can be the one returned.
get_next_any(lex, text, ptr) ==
    LET found == { get_next(lex[k], text, ptr) : k \in DOMAIN lex } \ { <<>> }
    IN  IF found = {} THEN { <<>> } ELSE found

\* number of operations on the tables and the lexer in one behaviour
MaxDefineOps == 3

\* patterns handed to Lexer::define: [a-c]+, a|b, [d-f]+, and three that do
\* not compile: [ab  (  a|+
DefinePatterns ==
    { <<"[", "a", "-", "c", "]", "+">>, <<"a", "|", "b">>,
      <<"[", "d", "-", "f", "]", "+">>,
      <<"[", "a", "b">>, <<"(">>, <<"a", "|", "+">> }

DefineTypes == {"tok:a", "tok:b"}

\* rule bodies and instructions handed to Parser::define
DefineRules ==
    { [expr |-> Token("tok:a", <<>>), lambda |-> Eval],
      [expr |-> ExprOr(<< Expr("VAL"), Token("tok:b", <<>>) >>),
       lambda |-> LambdaOr(<< EvalAs("INTEGER"), Eval >>)] }

DefineInit ==
    /\ mode = "define"
    /\ lexer = <<>>
    /\ parser = <<>>
    /\ venv = <<>>
    /\ registered = <<>>
    /\ content \in { <<"a", "b", "d">>, <<"d", "a">> }
    /\ pointer = new_pointer
    /\ last = NoOp
    /\ saved = <<>>
    /\ frames = <<>>
    /\ ret = NoRet
    /\ results = <<>>
    /\ overflow_checks \in BOOLEAN
    /\ idents = NoIdents

DefineStep(op, arg, out) ==
    /\ mode = "define"
    /\ last.n < MaxDefineOps
    /\ last' = Op(op, pointer, arg, out)
    /\ UNCHANGED <<overflow_checks, idents, content, mode, saved, frames, ret, results>>

\* lexer.define(token_type, regex)
Define ==
    \E t \in DefineTypes, p \in DefinePatterns :
        LET r == Lexer_define(lexer, t, p)
        IN  /\ DefineStep("define", [name |-> t, def |-> p], r.ok)
            /\ lexer' = r.lexer
            /\ registered' = IF r.ok THEN Append(registered, t) ELSE registered
            /\ UNCHANGED <<overflow_checks, idents, parser, venv, pointer>>

\* parser.define(expr_type, expr, lambda)
DefineRule ==
    \E n \in {"EXPR", "VAL"}, d \in DefineRules :
        /\ DefineStep("define_rule", [name |-> n, def |-> d],
                      IF n \in DOMAIN parser THEN <<parser[n]>> ELSE <<>>)
        /\ parser' = Parser_define(parser, n, d.expr, d.lambda)
        /\ UNCHANGED <<overflow_checks, idents, lexer, venv, pointer, registered>>

\* env.define(lambda_type, cb)
DefineOperation ==
    \E n \in {"ADD", "INTEGER"}, cb \in {"ADD", "MULT"} :
        /\ DefineStep("define_operation", [name |-> n, def |-> cb],
                      IF n \in DOMAIN venv THEN <<venv[n]>> ELSE <<>>)
        /\ venv' = VirtualEnv_define(venv, n, cb)
        /\ UNCHANGED <<overflow_checks, idents, lexer, parser, pointer, registered>>

\* lexer.get_next_token(token_type, &reader)
GetNextToken ==
    \E t \in DefineTypes :
        /\ DefineStep("get_next_token", t, get_next_token(lexer, t, content, pointer))
        /\ UNCHANGED <<overflow_checks, idents, lexer, parser, venv, pointer, registered>>

\* lexer.get_next_any(&reader)
GetNextAny ==
    \E out \in get_next_any(lexer, content, pointer) :
        /\ DefineStep("get_next_any", <<>>, out)
        /\ UNCHANGED <<overflow_checks, idents, lexer, parser, venv, pointer, registered>>

\* reader.next(size) for one character of the content
ReaderNext ==
    /\ pointer.read_pos[2] + 1 <= Len(content)
    /\ DefineStep("next", 1, <<>>)
    /\ pointer' = next(content, pointer, 1)
    /\ UNCHANGED <<overflow_checks, idents, lexer, parser, venv, registered>>

DefineNext ==
    \/ Define
    \/ DefineRule
    \/ DefineOperation
    \/ GetNextToken
    \/ GetNextAny
    \/ ReaderNext

DefineSpec == DefineInit /\ [][DefineNext]_vars

(***************************************************************************)
(* Properties of the lexer and of the definition tables                    *)
(***************************************************************************)
\* C13: get_next_token tries the pattern at the pending end only: the token
\* it returns has the type asked for, its text is the content starting at
\* the pending end, its span starts there (offset, line, column) and is as
\* long as the text; the cursor is left as it was.
C13_MatchAtPendingEnd ==
    (mode = "define" /\ last.op = "get_next_token") =>
        /\ pointer = last.before
        /\ last.out # <<>> =>
              LET tok == last.out[1]
                  end == last.before.read_pos[2]
              IN  /\ tok.token_type = last.arg
                  /\ tok.value # <<>>
                  /\ tok.value = SubSeq(content, end + 1, end + Len(tok.value))
                  /\ tok.position.read_pos = <<end, end + Len(tok.value)>>
                  /\ tok.position.line_pos[1] = last.before.line_pos[3]
                  /\ tok.position.line_pos[2] = last.before.line_pos[4]

\* a token found at a pending end other than 0, before the end of the text
C13_Witness ==
    /\ mode = "define" /\ last.op = "get_next_token"
    /\ last.out # <<>>
    /\ last.before.read_pos[2] > 0
    /\ last.out[1].position.read_pos[2] < Len(content)

\* the type registered first among those whose pattern matches at the cursor
FirstRegisteredMatch ==
    LET hits == { k \in 1..Len(registered) :
                    get_next_token(lexer, registered[k], content, last.before) # <<>> }
    IN  registered[CHOOSE k \in hits : \A j \in hits : k <= j]

\* C14: get_next_any returns the token of the pattern registered first among
\* the patterns that match at the cursor.
C14_FirstRegisteredWins ==
    (mode = "define" /\ last.op = "get_next_any" /\ last.out # <<>>) =>
        last.out[1].token_type = FirstRegisteredMatch

\* the patterns of DefinePatterns that the regex crate rejects
InvalidPatterns == { <<"[", "a", "b">>, <<"(">>, <<"a", "|", "+">> }

\* the characters a compiled pattern of DefinePatterns accepts
Accepts(pattern) ==
    CASE pattern = <<"[", "a", "-", "c", "]", "+">> -> {"a", "b", "c"}
      [] pattern = <<"a", "|", "b">> -> {"a", "b"}
      [] pattern = <<"[", "d", "-", "f", "]", "+">> -> {"d", "e", "f"}

\* C18: Lexer::define with a pattern that does not compile returns an error
\* and leaves every registered definition as it was, the earlier definition
\* of the same type included; with a valid pattern it returns Ok and
\* registers the pattern under the type, anchored: it matches at the cursor
\* exactly when the character there is one the pattern accepts.
C18_DefineToken ==
    [][ (mode = "define" /\ last'.op = "define") =>
        LET t == last'.arg.name
            p == last'.arg.def
        IN  IF p \in InvalidPatterns
            THEN /\ last'.out = FALSE
                 /\ lexer' = lexer
            ELSE /\ last'.out = TRUE
                 /\ DOMAIN lexer' = DOMAIN lexer \cup {t}
                 /\ lexer'[t].token_type = t
                 /\ \A off \in 0..Len(content) :
                       LET tok == get_next_token(lexer', t, content,
                                                 from_pos(<<0, 0, 0, 0>>, <<off, off>>))
                       IN  (tok # <<>>) <=>
                              (off < Len(content) /\ content[off + 1] \in Accepts(p)) ]_vars

\* a pattern that does not compile was given for a type that has a definition
C18_Witness ==
    /\ mode = "define" /\ last.op = "define"
    /\ last.out = FALSE
    /\ last.arg.name \in DOMAIN lexer
    /\ Cardinality(DOMAIN lexer) >= 2

\* C19: after define_rule, define_operation or define_token the name maps to
\* what was just given, whatever it mapped to before, and every other name
\* of the three tables maps to what it mapped to before.
C19_DefineReplaces ==
    [][ /\ (mode = "define" /\ last'.op = "define_rule") =>
              /\ parser'[last'.arg.name] = ParserDef(last'.arg.def.expr, last'.arg.def.lambda)
              /\ DOMAIN parser' = DOMAIN parser \cup {last'.arg.name}
              /\ \A k \in DOMAIN parser \ {last'.arg.name} : parser'[k] = parser[k]
              /\ lexer' = lexer /\ venv' = venv
        /\ (mode = "define" /\ last'.op = "define_operation") =>
              /\ venv'[last'.arg.name] = last'.arg.def
              /\ DOMAIN venv' = DOMAIN venv \cup {last'.arg.name}
              /\ \A k \in DOMAIN venv \ {last'.arg.name} : venv'[k] = venv[k]
              /\ lexer' = lexer /\ parser' = parser
        /\ (mode = "define" /\ last'.op = "define" /\ last'.out = TRUE) =>
              /\ lexer'[last'.arg.name].regex = build_regex(last'.arg.def).regex
              /\ \A k \in DOMAIN lexer \ {last'.arg.name} : lexer'[k] = lexer[k]
              /\ parser' = parser /\ venv' = venv ]_vars

\* a rule was defined again with another body while another rule exists
C19_Witness ==
    /\ mode = "define" /\ last.op = "define_rule"
    /\ last.out # <<>>
    /\ last.out[1] # parser[last.arg.name]
    /\ Cardinality(DOMAIN parser) >= 2

MaxEvalOps == 2

\* the calls an evaluation makes, in order: an EVAL entry for each call of
\* VirtualEnv::eval_node (the line it prints), a CALL entry for each
\* callback VirtualEnv::lambda invokes
Event(ev, name, node) == [ev |-> ev, name |-> name, node |-> node]

RECURSIVE eval_node_log(_, _)
RECURSIVE eval_lambda_log(_, _, _)
RECURSIVE lambda_log(_, _, _, _)
RECURSIVE eval_branch_log(_, _, _, _)
RECURSIVE EnvFrame_eval_log(_, _, _)

eval_branch_log(env, node, args, branch) ==
    LET index == args[branch]
    IN  IF index >= 1 /\ index <= Len(node.nodes)
        THEN eval_node_log(env, node.nodes[index])
        ELSE <<>>

EnvFrame_eval_log(env, node, args) ==
    CASE Len(args) = 1 -> eval_branch_log(env, node, args, 1)
      [] Len(args) = 2 ->
           eval_branch_log(env, node, args, 1)
           \o (IF eval_branch(env, node, args, 1).kind = "Panic" THEN <<>>
               ELSE eval_branch_log(env, node, args, 2))
      [] OTHER -> <<>>

eval_log(env, node) ==
    IF node.lambda.kind = "Eval" THEN <<>> ELSE eval_node_log(env, node)

lambda_log(env, name, node, args) ==
    IF name \notin DOMAIN env THEN <<>>
    ELSE << Event("CALL", name, node) >>
         \o (IF env[name] \in {"ADD", "SUB", "MULT", "DIV"}
             THEN EnvFrame_eval_log(env, node, args) ELSE <<>>)

eval_lambda_log(env, node, lam) ==
    CASE lam.kind = "Eval" -> eval_log(env, node)
      [] lam.kind = "Lambda" -> lambda_log(env, lam.name, node, lam.args)
      [] lam.kind = "EvalAs" -> lambda_log(env, lam.name, node, <<>>)
      [] lam.kind = "GetExpr" ->
           (IF lam.arg >= 1 /\ lam.arg <= Len(node.nodes)
            THEN eval_lambda_log(env, node.nodes[lam.arg], lam.subs[1])
            ELSE <<>>)
      [] OTHER -> <<>>

eval_node_log(env, node) ==
    << Event("EVAL", "", node) >> \o eval_lambda_log(env, node, node.lambda)

\* a leaf over the text `value`
Leaf(value, lam) == from_token(NewToken("int", value, new_pointer), lam)

I32MaxText == << "2", "1", "4", "7", "4", "8", "3", "6", "4", "7" >>

\* one more than I32Max
I32OverText == << "2", "1", "4", "7", "4", "8", "3", "6", "4", "8" >>

LeafTexts == { <<"7">>, <<"1", "2">>, <<"x">>, <<"1", ".", "5">>, <<"-", "3">>, <<>> }

LeafLambdas ==
    { Eval, EvalToken, EvalAs("INTEGER"), EvalAs("FLOAT"), EvalAs("NOPE"),
      Lambda("NOPE", <<1>>), Lambda("INTEGER", <<>>), LambdaOr(<< EvalAs("INTEGER") >>) }

Leaves ==
    { Leaf(value, lam) : value \in LeafTexts, lam \in LeafLambdas }
    \cup { Leaf(I32MaxText, EvalAs("INTEGER")), Leaf(I32OverText, EvalAs("INTEGER")),
           Leaf(<<"-">> \o I32OverText, EvalAs("INTEGER")) }

Sum72 ==
    from_nodes(<< Leaf(<<"7">>, EvalAs("INTEGER")), Leaf(<<"+">>, Eval),
                  Leaf(<<"2">>, EvalAs("INTEGER")) >>, Lambda("ADD", <<1, 3>>))

\* 7 / 0
DivZero ==
    from_nodes(<< Leaf(<<"7">>, EvalAs("INTEGER")), Leaf(<<"/">>, Eval),
                  Leaf(<<"0">>, EvalAs("INTEGER")) >>, Lambda("DIV", <<1, 3>>))

\* x + 7 / 0
ErrSum ==
    from_nodes(<< Leaf(<<"x">>, EvalAs("INTEGER")), Leaf(<<"+">>, Eval), DivZero >>,
               Lambda("ADD", <<1, 3>>))

\* the children of the branches that are evaluated
KidLists ==
    { << Leaf(<<"7">>, EvalAs("INTEGER")), Leaf(<<"+">>, Eval), Leaf(<<"2">>, EvalAs("INTEGER")) >>,
      << Leaf(<<"(">>, Eval), Leaf(<<"7">>, EvalAs("FLOAT")), Leaf(<<")">>, Eval) >>,
      << Leaf(<<"(">>, Eval), Sum72, Leaf(<<")">>, Eval) >>,
      << Leaf(<<"x">>, EvalAs("INTEGER")), Leaf(<<"+">>, Eval), Leaf(<<"y">>, EvalAs("FLOAT")) >>,
      << Leaf(<<"7">>, Eval), Leaf(<<"2">>, EvalToken), Sum72 >>,
      << Leaf(I32MaxText, EvalAs("INTEGER")), Leaf(<<"+">>, Eval), Leaf(<<"1">>, EvalAs("INTEGER")) >>,
      << Sum72, Leaf(<<"/">>, Eval), Leaf(<<"0">>, EvalAs("INTEGER")) >>,
      << DivZero, Leaf(<<"+">>, Eval), Leaf(<<"x">>, EvalAs("INTEGER")) >>,
      << ErrSum, Leaf(<<"*">>, Eval), Leaf(<<"2">>, EvalAs("INTEGER")) >>,
      << Leaf(<<"7">>, EvalAs("INTEGER")) >> }

\* the argument lists of the named operations
ArgLists == { <<>>, <<1>>, <<2>>, <<3>>, <<1, 3>>, <<3, 1>>, <<1, 1>>, <<0, 1>>, <<1, 2, 3>> }

OpNames == { "ADD", "SUB", "MULT", "DIV", "NOPE" }

BranchLambdas ==
    { Lambda(name, args) : name \in OpNames, args \in ArgLists }
    \cup { EvalAs(name) : name \in OpNames \cup {"INTEGER"} }
    \cup { GetExpr(i, sub) : i \in 0..4,
                             sub \in { Eval, EvalToken, EvalAs("INTEGER"), EvalAs("NOPE"),
                                       Lambda("ADD", <<1, 3>>), GetExpr(1, EvalAs("INTEGER")) } }
    \cup { Eval, EvalToken, LambdaOr(<< Lambda("ADD", <<1, 3>>), Eval >>) }

Branches == { from_nodes(kids, lam) : kids \in KidLists, lam \in BranchLambdas }

EvalNodes == Leaves \cup Branches

\* results Executor::exec maps to its outcome
ExecStates ==
    { StateNone, StateNodeOf(Sum72), StateNodeOf(Leaf(<<"7">>, Eval)),
      RuntimeErr("None"), RuntimeErr("Node Result"), RuntimeErr("Cannot divide by zero"),
      Value(Integer(7)), Value(Integer(0 - 3)), Value(Integer(I32Min)), Value(BigInteger(12)),
      Value(Float(7, 2)), Value(Float(2, 1)), Value(BigFloat(0 - 1, 4)),
      Value(String(<<"N", "o", "n", "e">>)), Value(String(<<>>)),
      Value(ValueError("e1")) }

\* operands of the operators of NodeValue
SmallValues ==
    { Integer(0), Integer(2), Integer(6), Integer(7), Integer(0 - 3),
      BigInteger(0), BigInteger(2), BigInteger(7),
      Float(0, 1), Float(3, 2), Float(2, 1),
      BigFloat(0, 1), BigFloat(3, 2), BigFloat(0 - 1, 4),
      String(<<"a">>), String(<<"2">>),
      ValueError("e1"), ValueError("e2") }

\* operands at the ends of the range of i32
ExtremePairs ==
    { << Integer(I32Max), Integer(1) >>, << Integer(I32Max), Integer(2) >>,
      << Integer(I32Min), Integer(1) >>, << Integer(I32Min), Integer(2) >>,
      << Integer(I32Min), Integer(0 - 1) >>, << Integer(I32Max), Integer(0 - 1) >>,
      << Integer(I32Min), Integer(0) >>, << Integer(1), Integer(I32Max) >> }

ValuePairs == (SmallValues \X SmallValues) \cup ExtremePairs

\* operands of the operators of StateNode
StateOperands ==
    { StateNone, StateNodeOf(Leaf(<<"7">>, Eval)), RuntimeErr("r1"), RuntimeErr("r2"),
      Value(Integer(0)), Value(Integer(6)), Value(Integer(7)), Value(Float(3, 2)),
      Value(BigFloat(0, 1)), Value(String(<<"a">>)), Value(ValueError("e1")) }

\* borrowed Lambdas: those of the tests of exec/syntax.rs and nested ones
BorrowedLeaves ==
    { BorrowedLambda("Lambda", "test", <<1, 2, 3>>, 0, <<>>),
      BorrowedLambda("Lambda", "test1", <<1, 2>>, 0, <<>>),
      BorrowedLambda("Lambda", "test2", <<3, 4>>, 0, <<>>),
      BorrowedLambda("Lambda", "test", <<>>, 0, <<>>),
      BorrowedLambda("Eval", "", <<>>, 0, <<>>),
      BorrowedLambda("EvalAs", "test", <<>>, 0, <<>>),
      BorrowedLambda("EvalToken", "", <<>>, 0, <<>>) }

BorrowedPairs ==
    { BorrowedLambda("LambdaOr", "", <<>>, 0, <<l1, l2>>) :
         l1 \in BorrowedLeaves, l2 \in BorrowedLeaves }

BorrowedLambdas ==
    BorrowedLeaves \cup BorrowedPairs
    \cup { BorrowedLambda("LambdaOr", "", <<>>, 0, <<>>) }
    \cup { BorrowedLambda("GetExpr", "", <<>>, id, <<l>>) :
             id \in {0, 2, 42}, l \in BorrowedLeaves \cup BorrowedPairs }
    \cup { BorrowedLambda("LambdaOr", "", <<>>, 0,
                          << BorrowedLambda("GetExpr", "", <<>>, 2, <<l>>), l,
                             BorrowedLambda("Eval", "", <<>>, 0, <<>>) >>) :
             l \in BorrowedPairs }

\* the operands of one behaviour of EvalSpec, drawn once and kept in
\* last.arg: a node, a frame (a node whose Lambda holds the argument list), a
\* result of the evaluation, two operands of an operator, or a borrowed
\* Lambda; StateNone fills
\* the place of a second operand where there is none
Input(kind, a, b) == [kind |-> kind, a |-> a, b |-> b]

EvalInputs ==
    { Input("node", node, StateNone) : node \in EvalNodes }
    \cup { Input("frame", from_nodes(kids, Lambda("ADD", args)), StateNone) :
              kids \in KidLists, args \in ArgLists }
    \cup { Input("state", state, StateNone) : state \in ExecStates }
    \cup { Input("values", pair[1], pair[2]) : pair \in ValuePairs }
    \cup { Input("states", lhs, rhs) : lhs \in StateOperands, rhs \in StateOperands }
    \cup { Input("lambda", lam, StateNone) : lam \in BorrowedLambdas }

EvalInit ==
    /\ mode = "eval"
    /\ venv \in { MathEnv, [n \in {"INTEGER", "ADD"} |-> n] }
    /\ overflow_checks \in BOOLEAN
    /\ idents = NoIdents
    /\ \E input \in EvalInputs : last = [NoOp EXCEPT !.arg = input]
    /\ lexer = LexerMath
    /\ parser = ParserArith
    /\ content = <<>>
    /\ pointer = new_pointer
    /\ saved = <<>>
    /\ frames = <<>>
    /\ ret = NoRet
    /\ results = <<>>
    /\ registered = <<>>

EvalStep(kind, op, out) ==
    /\ mode = "eval"
    /\ last.arg.kind = kind
    /\ last.n < MaxEvalOps
    /\ last' = Op(op, pointer, last.arg, out)
    /\ UNCHANGED <<overflow_checks, idents, venv, lexer, parser, content, pointer, saved, frames,
                   ret, mode, results, registered>>

\* VirtualEnv::exec(ast): eval_node on the root
EvalNode ==
    EvalStep("node", "eval_node",
             [state |-> eval_node(venv, last.arg.a), log |-> eval_node_log(venv, last.arg.a)])

\* a callback calls frame.eval() on the frame VirtualEnv::lambda built
FrameEval ==
    EvalStep("frame", "frame_eval",
             [exec |-> EnvFrame_eval(venv, last.arg.a, last.arg.a.lambda.args),
              log |-> EnvFrame_eval_log(venv, last.arg.a, last.arg.a.lambda.args)])

\* Executor::exec: the outcome for the result of the evaluation
ExecResult == EvalStep("state", "exec", exec_result(last.arg.a))

ValueStep(name, op) ==
    EvalStep("values", name,
             [val |-> NodeValueOp(op, last.arg.a, last.arg.b),
              retries |-> IF op = "/" THEN 0
                          ELSE NodeValue_arith_retries(op, last.arg.a, last.arg.b)])

\* NodeValue + NodeValue
ValueAdd == ValueStep("value_add", "+")

\* NodeValue - NodeValue
ValueSub == ValueStep("value_sub", "-")

\* NodeValue * NodeValue
ValueMul == ValueStep("value_mul", "*")

\* NodeValue / NodeValue
ValueDiv == ValueStep("value_div", "/")

StateStep(name, op) ==
    EvalStep("states", name, operator(last.arg.a, last.arg.b, op))

\* StateNode + StateNode
StateAdd == StateStep("state_add", "+")

\* StateNode - StateNode
StateSub == StateStep("state_sub", "-")

\* StateNode * StateNode
StateMul == StateStep("state_mul", "*")

\* StateNode / StateNode
StateDiv == StateStep("state_div", "/")

\* lambda.into() and OwnedLambda::from(&lambda)
IntoOwned ==
    EvalStep("lambda", "into",
             [by_value |-> Lambda_into(last.arg.a), by_ref |-> OwnedLambda_from(last.arg.a)])

EvalNext ==
    \/ IntoOwned
    \/ EvalNode
    \/ FrameEval
    \/ ExecResult
    \/ ValueAdd
    \/ ValueSub
    \/ ValueMul
    \/ ValueDiv
    \/ StateAdd
    \/ StateSub
    \/ StateMul
    \/ StateDiv

EvalSpec == EvalInit /\ [][EvalNext]_vars

(***************************************************************************)
(* C21: a named operation receives the children its argument list names   *)
(***************************************************************************)
ValidArgs(node, args) == \A k \in 1..Len(args) : args[k] \in 1..Len(node.nodes)

\* the log of evaluating, in order, the children of node that args names
RECURSIVE ChildLogs(_, _, _)
ChildLogs(env, node, args) ==
    IF args = <<>> THEN <<>>
    ELSE eval_node_log(env, node.nodes[Head(args)]) \o ChildLogs(env, node, Tail(args))

OtherTags == LeafLambdas \cup { Lambda("ADD", <<1, 3>>), GetExpr(1, Eval) }

Retagged(node, tag) == [node EXCEPT !.lambda = tag]

\* a node tagged GetExpr(i, s) with i an index of one of its children
DescendCase ==
    /\ last.op = "eval_node"
    /\ last.arg.a.lambda.kind = "GetExpr"
    /\ last.arg.a.lambda.arg \in 1..Len(last.arg.a.nodes)

\* C22: evaluating a node tagged GetExpr(i, s) gives the result of evaluating
\* its i-th child under s, and that result does not depend on the child's own
\* instruction, whatever s is (Eval included).
C22_DescendIgnoresChildTag ==
    DescendCase
    => LET child == last.arg.a.nodes[last.arg.a.lambda.arg]
           sub == last.arg.a.lambda.subs[1]
       IN  \A tag \in OtherTags :
              last.out.state = eval_lambda(venv, Retagged(child, tag), sub)

\* C22 as the code has it: the result is that of the i-th child under s; for
\* s other than Eval it does not depend on the child's own instruction; for
\* s = Eval the child is evaluated under its own instruction, which is an
\* error when that is Eval too.
C22_DescendUsesSubInstruction ==
    DescendCase
    => LET child == last.arg.a.nodes[last.arg.a.lambda.arg]
           sub == last.arg.a.lambda.subs[1]
       IN  /\ last.out.state = eval_lambda(venv, child, sub)
           /\ sub.kind # "Eval"
              => \A tag \in OtherTags :
                    last.out.state = eval_lambda(venv, Retagged(child, tag), sub)
           /\ sub.kind = "Eval"
              => last.out.state =
                    (IF child.lambda.kind = "Eval"
                     THEN RuntimeErr("Recursion Error: Cannot EVAL on node with EVAL lambda")
                     ELSE eval_node(venv, child))
           /\ ( sub = EvalAs("INTEGER") /\ child = Leaf(<<"7">>, EvalAs("FLOAT")) )
              => last.out.state = Value(Integer(7))
           /\ ( sub = Eval /\ child = Leaf(<<"7">>, EvalAs("FLOAT")) /\ "FLOAT" \in DOMAIN venv )
              => last.out.state = Value(Float(7, 1))

\* the second child, tagged FLOAT, was evaluated as an INTEGER by GetExpr
C22_Witness ==
    /\ DescendCase
    /\ last.arg.a.lambda = GetExpr(2, EvalAs("INTEGER"))
    /\ last.arg.a.nodes[2] = Leaf(<<"7">>, EvalAs("FLOAT"))
    /\ last.out.state = Value(Integer(7))

(***************************************************************************)
(* C23: a node tagged Eval                                                 *)
(***************************************************************************)
IsLeaf(node) == Len(node.nodes) = 0

\* C23: evaluating a node whose instruction is Eval gives an error, for a
\* leaf and for a branch alike, and nothing but the node itself is evaluated:
\* no child is evaluated and no callback is called.
C23_DefaultIsError ==
    ( last.op = "eval_node" /\ last.arg.a.lambda.kind = "Eval" )
    => /\ last.out.state.kind = "RuntimeErr"
       /\ last.out.log = << Event("EVAL", "", last.arg.a) >>

\* a branch tagged Eval was evaluated
C23_Witness ==
    /\ last.op = "eval_node"
    /\ last.arg.a.lambda.kind = "Eval"
    /\ ~IsLeaf(last.arg.a)
    /\ last.out.state.kind = "RuntimeErr"

(***************************************************************************)
(* C25: a name the environment does not hold                               *)
(***************************************************************************)
MissingNameCase ==
    /\ last.op = "eval_node"
    /\ last.arg.a.lambda.kind \in {"Lambda", "EvalAs"}
    /\ last.arg.a.lambda.name \notin DOMAIN venv

\* C25: evaluating a node tagged Lambda(name, args) or EvalAs(name) with a
\* name the environment does not hold gives an error that names it; no
\* callback is called and no child of the node is evaluated.
C25_MissingNameIsError ==
    MissingNameCase
    => /\ last.out.state = RuntimeErr("No lambda found for " \o last.arg.a.lambda.name)
       /\ last.out.log = << Event("EVAL", "", last.arg.a) >>

\* a branch tagged with an unknown name and the indices of two children
C25_Witness ==
    /\ MissingNameCase
    /\ last.arg.a.lambda.kind = "Lambda"
    /\ Len(last.arg.a.lambda.args) = 2
    /\ ~IsLeaf(last.arg.a)
    /\ last.out.state.kind = "RuntimeErr"

(***************************************************************************)
(* C24: a node tagged EvalToken                                            *)
(***************************************************************************)
\* C24: evaluating a node tagged EvalToken gives the value parsed from the
\* text of the leaf when the node is a leaf whose text parses, and an error
\* when the text does not parse or the node is a branch.
C24_LiteralLeafParses ==
    ( last.op = "eval_node" /\ last.arg.a.lambda.kind = "EvalToken" )
    => IF ~IsLeaf(last.arg.a) THEN last.out.state.kind = "RuntimeErr"
       ELSE LET text == last.arg.a.leaf[1].value
            IN  IF parse_i32(text) # <<>>
                THEN last.out.state = Value(Integer(parse_i32(text)[1]))
                ELSE IF parse_float(text) # <<>>
                THEN last.out.state.kind = "Value"
                ELSE last.out.state.kind \in {"Value", "RuntimeErr"}

KindRank(type) ==
    CASE type = "Integer" -> 1
      [] type = "BigInteger" -> 2
      [] type = "Float" -> 3
      [] type = "BigFloat" -> 4

WiderKind(t1, t2) == IF KindRank(t1) >= KindRank(t2) THEN t1 ELSE t2

ArithCase ==
    /\ last.op \in {"value_add", "value_sub", "value_mul"}
    /\ last.arg.a.type \in NumericTypes
    /\ last.arg.b.type \in NumericTypes

\* C27: a sum, a difference or a product of two numeric values has the kind
\* of the operands when they share one and the wider of the two kinds
\* otherwise, whichever side holds it, and the operator calls itself on
\* converted operands at most once.
C27_ResultKindIsWider ==
    ArithCase
    => /\ last.out.val.type = WiderKind(last.arg.a.type, last.arg.b.type)
       /\ last.out.retries <= 1

(***************************************************************************)
(* C28: integer divided by integer                                         *)
(***************************************************************************)
FloatKindOf(type) == IF type = "Integer" THEN "Float" ELSE "BigFloat"

IntegerDivCase ==
    /\ last.op = "value_div"
    /\ last.arg.a.type = last.arg.b.type
    /\ last.arg.a.type \in {"Integer", "BigInteger"}
    /\ last.arg.b.v # 0

\* C28: an integer divided by a non-zero integer of the same kind gives the
\* quotient in that kind when the division is even, and the quotient in the
\* matching float kind when it is not.
C28_IntegerDivision ==
    IntegerDivCase
    => IF Divides(last.arg.b.v, last.arg.a.v)
       THEN /\ last.out.val.type = last.arg.a.type
            /\ last.out.val.d = 1
            /\ last.out.val.v = ExactQuotient(last.arg.a.v, last.arg.b.v)
       ELSE last.out.val = Ratio(FloatKindOf(last.arg.a.type), last.arg.a.v, last.arg.b.v)

(***************************************************************************)
(* C29: division by zero                                                   *)
(***************************************************************************)
ZeroDivisor(val) == val.type \in NumericTypes /\ val.v = 0

\* C29: dividing by a zero of any numeric kind gives an error whatever the
\* kind of the dividend, and no number: NodeValue / NodeValue returns the
\* ValueError of the zero test, StateNode / StateNode a RuntimeErr.
C29_DivisionByZeroIsError ==
    /\ ( last.op = "value_div" /\ ZeroDivisor(last.arg.b) )
       => /\ last.out.val.type = "ValueError"
          /\ last.arg.a.type # "ValueError"
             => last.out.val = ValueError("Cannot divide by zero")
    /\ ( last.op = "state_div" /\ last.arg.b.kind = "Value" /\ ZeroDivisor(last.arg.b.val) )
       => /\ last.out.kind = "RuntimeErr"
          /\ ( last.arg.a.kind = "Value" /\ last.arg.a.val.type # "ValueError" )
             => last.out = RuntimeErr("Cannot divide by zero")

\* an integer was divided by a zero of another kind
C29_Witness ==
    /\ last.op = "value_div"
    /\ last.arg.a = Integer(7)
    /\ last.arg.b = BigFloat(0, 1)
    /\ last.out.val = ValueError("Cannot divide by zero")

(***************************************************************************)
(* C30: an operand that is an error                                        *)
(***************************************************************************)
ValueOps == {"value_add", "value_sub", "value_mul", "value_div"}

StateOps == {"state_add", "state_sub", "state_mul", "state_div"}

\* C30: for each of the four operators, the result is the left operand's
\* error when the left operand is an error and the right operand's error
\* when only the right one is; no other test comes first, so an error
\* divided by zero gives the error of the dividend.
C30_ErrorOperandWins ==
    /\ last.op \in ValueOps
       => /\ last.arg.a.type = "ValueError" => last.out.val = last.arg.a
          /\ ( last.arg.a.type # "ValueError" /\ last.arg.b.type = "ValueError" )
             => last.out.val = last.arg.b
    /\ last.op \in StateOps
       => /\ last.arg.a.kind = "RuntimeErr" => last.out = last.arg.a
          /\ ( last.arg.a.kind = "Value" /\ last.arg.a.val.type # "ValueError"
               /\ last.arg.b.kind = "RuntimeErr" )
             => last.out = last.arg.b

(***************************************************************************)
(* C31: a String operand                                                   *)
(***************************************************************************)
\* C31: each of the four operators gives an error for one String and one
\* numeric operand, whatever the text is, and a String with a String is the
\* one combination of a String operand that does not give an error.
C31_TextCombinesOnlyWithText ==
    last.op \in ValueOps
    => /\ ( \/ last.arg.a.type = "String" /\ last.arg.b.type \in NumericTypes
            \/ last.arg.a.type \in NumericTypes /\ last.arg.b.type = "String" )
          => last.out.val.type = "ValueError"
       /\ ( last.arg.a.type = "String" /\ last.arg.b.type = "String" )
          => last.out.val.type # "ValueError"

(***************************************************************************)
(* C32: an error of a sub-tree reaches Executor::exec                      *)
(***************************************************************************)
\* a node tagged with an arithmetic callback and the indexes of two children
BinaryCase ==
    /\ last.op = "eval_node"
    /\ last.arg.a.lambda.kind = "Lambda"
    /\ last.arg.a.lambda.name \in DOMAIN venv
    /\ venv[last.arg.a.lambda.name] \in {"ADD", "SUB", "MULT", "DIV"}
    /\ Len(last.arg.a.lambda.args) = 2
    /\ ValidArgs(last.arg.a, last.arg.a.lambda.args)

\* the result `out` of an operation whose operands gave r1 and r2 is the
\* error of r1, or else the error of r2, and Executor::exec makes it Err
ErrorWins(r1, r2, out) ==
    /\ r1.kind = "RuntimeErr"
       => out = r1 /\ exec_result(out) = [ok |-> FALSE, text |-> <<r1.err>>]
    /\ ( r1.kind = "Value" /\ r2.kind = "RuntimeErr" )
       => out = r2 /\ exec_result(out) = [ok |-> FALSE, text |-> <<r2.err>>]

KidsOf(node) == node.nodes

\* C32: when the evaluation of an operand of an arithmetic operation gives
\* an error, the operation returns that error, the left operand's before the
\* right one's, and so does every operation around it; Executor::exec
\* returns Err with the message of the first error.  (7 / 0) + x fails with
\* the division by zero, x + (7 / 0) and (x + (7 / 0)) * 2 with the parse
\* error of x.
C32_ErrorPropagates ==
    BinaryCase
    => /\ ErrorWins(eval_node(venv, last.arg.a.nodes[last.arg.a.lambda.args[1]]),
                    eval_node(venv, last.arg.a.nodes[last.arg.a.lambda.args[2]]),
                    last.out.state)
       /\ ( last.arg.a.lambda.args = <<1, 3>> /\ "DIV" \in DOMAIN venv
            /\ KidsOf(last.arg.a)[1] = DivZero /\ Len(KidsOf(last.arg.a)) = 3
            /\ KidsOf(last.arg.a)[3] = Leaf(<<"x">>, EvalAs("INTEGER")) )
          => last.out.state = RuntimeErr("Cannot divide by zero")
       /\ ( last.arg.a.lambda.args = <<1, 3>> /\ KidsOf(last.arg.a)[1] = ErrSum )
          => last.out.state = RuntimeErr("Failed to parse as Integer")

\* (x + 7 / 0) * 2 failed with the parse error of x
C32_Witness ==
    /\ BinaryCase
    /\ last.arg.a.lambda = Lambda("MULT", <<1, 3>>)
    /\ KidsOf(last.arg.a)[1] = ErrSum
    /\ last.out.state = RuntimeErr("Failed to parse as Integer")
    /\ ~exec_result(last.out.state).ok

(***************************************************************************)
(* C33: the identifier storage                                             *)
(***************************************************************************)
\* C33: the callbacks of lang/math that the grammars of `Scenarios` reach
\* write no identifier, so no step of Parser::parse_tree or Executor::exec
\* changes the identifier storage.
C33_EngineLeavesIdentifiers == [][idents' = idents]_vars

(***************************************************************************)
(* C34: Lambda into OwnedLambda                                            *)
(***************************************************************************)
\* the owned lambda has the variant, the name, the argument list, the index
\* and, one for one and in order, the sub-lambdas of the borrowed one
RECURSIVE Preserves(_, _)
Preserves(lam, owned) ==
    /\ owned.kind = lam.variant
    /\ owned.name = (IF lam.variant \in {"Lambda", "EvalAs"} THEN lam.str ELSE "")
    /\ owned.args = (IF lam.variant = "Lambda" THEN lam.slice ELSE <<>>)
    /\ owned.arg = (IF lam.variant = "GetExpr" THEN lam.id ELSE 0)
    /\ Len(owned.subs) = Len(lam.refs)
    /\ \A i \in 1..Len(lam.refs) : Preserves(lam.refs[i], owned.subs[i])

\* C34: converting a borrowed Lambda to an OwnedLambda keeps the variant,
\* the name, the argument list in its order, the child index and the
\* converted sub-lambdas in their order, and the conversion by value and the
\* conversion by reference give the same OwnedLambda.
C34_IntoOwnedPreserves ==
    last.op = "into"
    => /\ Preserves(last.arg.a, last.out.by_value)
       /\ Preserves(last.arg.a, last.out.by_ref)
       /\ last.out.by_value = last.out.by_ref

\* LambdaOr(&[Lambda("test1", &[1, 2]), Lambda("test2", &[3, 4])]) was
\* converted
C34_Witness ==
    /\ last.op = "into"
    /\ last.arg.a = BorrowedLambda("LambdaOr", "", <<>>, 0,
                       << BorrowedLambda("Lambda", "test1", <<1, 2>>, 0, <<>>),
                          BorrowedLambda("Lambda", "test2", <<3, 4>>, 0, <<>>) >>)
    /\ last.out.by_value =
          LambdaOr(<< Lambda("test1", <<1, 2>>), Lambda("test2", <<3, 4>>) >>)

(***************************************************************************)
(* C35: termination and left recursion                                     *)
(***************************************************************************)
\* the rules an expression can enter before any token is consumed.  No
\* expression of the grammars above matches the empty text (every token is
\* one character or more, no sequence is empty), so only the first
\* sub-expression of a sequence is entered at the position of the sequence.
RECURSIVE FirstRefs(_)
FirstRefs(expr) ==
    CASE expr.kind = "Expr" -> {expr.name}
      [] expr.kind = "Token" -> {}
      [] expr.kind = "ExprOr" ->
           UNION { FirstRefs(expr.subs[k]) : k \in 1..Len(expr.subs) }
      [] expr.kind = "SubExpr" ->
           IF expr.subs = <<>> THEN {} ELSE FirstRefs(expr.subs[1])

\* the rules reached from the rules of `names` without consuming a token
RECURSIVE ReachedFrom(_, _)
ReachedFrom(prs, names) ==
    LET more == UNION { FirstRefs(prs[n].expr) : n \in names \cap DOMAIN prs }
    IN  IF more \subseteq names THEN names ELSE ReachedFrom(prs, names \cup more)

\* some rule re-enters itself through RuleRef without consuming a token
LeftRecursive(prs) ==
    \E n \in DOMAIN prs : n \in ReachedFrom(prs, FirstRefs(prs[n].expr))

InCall == mode # "idle"

\* C35: on a grammar where no rule re-enters itself without consuming a token
\* every call of parse_tree returns; on the left-recursive grammar a call
\* never returns, every activation begins at the offset where the call began,
\* and the nesting reaches whatever depth is followed.
C35_TerminatesUnlessLeftRecursive ==
    /\ (~LeftRecursive(parser) /\ InCall) ~> ~InCall
    /\ [][(LeftRecursive(parser) /\ InCall) => InCall']_vars
    /\ [](LeftRecursive(parser) =>
            \A k \in 1..Len(frames) : frames[k].start[1] = results[Len(results)].before.read_pos[2])
    /\ (LeftRecursive(parser) /\ InCall) ~> (Len(frames) = MaxDepth)

C35_Witness ==
    /\ LeftRecursive(parser)
    /\ Len(frames) = MaxDepth
    /\ \E j, k \in 1..Len(frames) :
          /\ j < k
          /\ frames[j].expr = Expr("A") /\ frames[k].expr = Expr("A")
          /\ frames[j].start = frames[k].start

(***************************************************************************)
(* C36: LineReader::next moves the pending end only                        *)
(***************************************************************************)
\* the step of get_token that advances the reader: reader.next(token)
Advances == Running /\ Top.expr.kind = "Token" /\ pointer' # pointer

RECURSIVE LeafText(_)
RECURSIVE LeafTextOf(_, _)
LeafTextOf(nodes, k) ==
    IF k > Len(nodes) THEN <<>> ELSE LeafText(nodes[k]) \o LeafTextOf(nodes, k + 1)

LeafText(node) ==
    IF node.leaf # <<>> THEN node.leaf[1].value ELSE LeafTextOf(node.nodes, 1)

\* the input between the committed positions before and after a call
Consumed(r) == SubSeq(content, r.before.read_pos[1] + 1, r.after.read_pos[1])

\* C37: after a successful parse_tree the values of the leaf tokens of the
\* tree, concatenated left to right, are the input text between the committed
\* position before the call and the committed position after it.
C37_LeavesAreConsumedText ==
    \A k \in 1..Len(results) :
        (results[k].done /\ results[k].ok) =>
            LeafText(results[k].ast[1]) = Consumed(results[k])

(***************************************************************************)
(* C38: line counting and the split of the text                            *)
(***************************************************************************)
\* two advances in a row
TwoAdvances == mode = "cursor" /\ last.op = "advance" /\ last'.op = "advance"

\* C38: advancing by s1 and then by s2 gives the same end offset, line and
\* column as advancing once by s1 followed by s2, also when s1 ends with \r
\* and s2 begins with \n.
C38_SplitDoesNotMatter ==
    [][ TwoAdvances =>
        EndPos(pointer') = EndPos(move_pointer(last.before, last.arg \o last'.arg)) ]_vars

(***************************************************************************)
(* C39: child indexes out of range                                         *)
(***************************************************************************)
OutOfRange(i, node) == i = 0 \/ i > Len(node.nodes)

\* the node is tagged GetExpr(i, s) with i out of range
BadDescend(node) ==
    node.lambda.kind = "GetExpr" /\ OutOfRange(node.lambda.arg, node)

\* the node is tagged with an arithmetic operation of the environment, one
\* or two argument indexes, one of them out of range
BadArgument(node) ==
    /\ node.lambda.kind = "Lambda"
    /\ node.lambda.name \in {"ADD", "SUB", "MULT", "DIV"}
    /\ Len(node.lambda.args) \in {1, 2}
    /\ \E k \in 1..Len(node.lambda.args) : OutOfRange(node.lambda.args[k], node)

\* C39: evaluating a node whose Descend index or whose argument index is 0 or
\* greater than the number of its children gives an Error result; the
\* evaluation does not abort.
C39_BadIndexIsError ==
    ( last.op = "eval_node" /\ (BadDescend(last.arg.a) \/ BadArgument(last.arg.a)) )
    => last.out.state.kind = "RuntimeErr"

(***************************************************************************)
(* C40: an error marker carried as a value                                 *)
(***************************************************************************)
\* the result handed to Executor::exec is a Value holding a ValueError
ErrorAsValue ==
    /\ last.op = "exec"
    /\ last.arg.a.kind = "Value"
    /\ last.arg.a.val.type = "ValueError"

\* C40: when the result of the evaluation is a Value that carries a
\* ValueError, Executor::exec returns a failure with the message of the error,
\* not a success with the empty text.
C40_ErrorValueIsFailure ==
    ErrorAsValue => last.out = [ok |-> FALSE, text |-> <<last.arg.a.val.err>>]

====
